---------------------------- MODULE Spec2Model ----------------------------
(***************************************************************************)
(* Rock-joint analyzer: the geometric post-processing and statistics core, *)
(* and the five-step application around it.                                *)
(*                                                                         *)
(*   removeDuplicateLines        src/utils/imageProcessing.ts              *)
(*   clusterJointsByOrientation  src/components/ResultsView.tsx            *)
(*   calculateFractureStats      utils/exportUtils (unnamed/part_003)      *)
(*   App and its components      src/App.tsx, src/components/              *)
(*                                                                         *)
(* Number representation.                                                  *)
(*  - Pixel coordinates and thresholds are integers.                       *)
(*  - A pixel distance is carried as its SQUARE (an exact integer): the    *)
(*    code only ever compares distances (d < threshold, the sort by        *)
(*    length, midDist < max(len) * 0.5), and x |-> x*x is strictly         *)
(*    increasing on the non-negative reals, so every comparison is made    *)
(*    on squares.  Midpoints are carried doubled (2*mid).                  *)
(*  - Segment angles are integers in millidegrees; Math.atan2 is a table   *)
(*    over the direction vectors that occur.                               *)
(*  - Metric quantities (metres, square metres, ...) are exact values      *)
(*    (n/d)*sqrt(r), or the IEEE specials Infinity and NaN, so that        *)
(*    division by zero behaves as it does in JavaScript.                   *)
(***************************************************************************)
EXTENDS Integers, Sequences, FiniteSets

VARIABLES
    pc,          \* "ready" | "done" | "rerun" | "swapped" | "permuted" | "mapped": position
                 \* of the
                 \* driver of a function; "app" while the application runs
    segments,    \* removeDuplicateLines: the input list
    threshold,   \* removeDuplicateLines: matchThreshold
    result,      \* removeDuplicateLines: the returned list
    result2,     \* removeDuplicateLines applied to its own output
    swapped,     \* the input list with one segment's start and end swapped
    resultSwapped, \* removeDuplicateLines applied to `swapped`
    joints,      \* the joint list handed to the clusterer / the calculator
    maxSets,     \* clusterJointsByOrientation: maxSets
    sets,        \* clusterJointsByOrientation: `sets` right before slice()
    jointSets,   \* clusterJointsByOrientation: the returned list
    permuted,    \* the joint list with two neighbours exchanged
    jointSetsPermuted, \* clusterJointsByOrientation applied to `permuted`
    jointColorMap, \* createJointColorMap applied to the returned list
    angle,       \* normalizeOrientation: the argument
    normalized,  \* normalizeOrientation of angle, angle + 180, angle - 360
    scale,       \* calculateFractureStats: scale (pixelsPerMeter)
    photoWidth,  \* calculateFractureStats: photoWidth in pixels
    photoHeight, \* calculateFractureStats: photoHeight in pixels
    stats,       \* calculateFractureStats: the returned FractureStats
    currentStep, \* App: 'capture' | 'scale' | 'detect' | 'edit' | 'results'
    detectedJoints, \* JointDetection: the state detectedJoints
    editorJoints,   \* ManualEditor: the state joints
    isProcessing, \* JointDetection: the state isProcessing
    showOriginal, \* JointDetection: the state showOriginal
    detection,   \* JointDetection: the promise of the last detectJoints call:
                 \* "idle" (none yet) | "pending" | "resolved" | "rejected"
    useImperial, \* ResultsView: the state useImperial
    exported     \* exportToCSV: the statistics last written by the mounted
                 \* ResultsView

dedupVars == <<segments, threshold, result, result2, swapped, resultSwapped>>
clusterVars ==
    <<joints, maxSets, sets, jointSets, permuted, jointSetsPermuted, jointColorMap>>
normalizeVars == <<angle, normalized>>
statsVars == <<scale, photoWidth, photoHeight, stats>>
detectionVars == <<isProcessing, showOriginal, detection>>
appVars ==
    <<currentStep, detectedJoints, editorJoints, detectionVars, useImperial, exported>>
vars == <<pc, dedupVars, clusterVars, normalizeVars, statsVars, appVars>>

(***************************************************************************)
(* Bounds of the model                                                     *)
(***************************************************************************)
MaxSegs == 3

MaxJoints == 3

MaxAngle == 400

\* the longest joint list drawn from ExamplePool
MaxExampleJoints == 4

\* the most joints of WrapPool that follow the joints of FullCircle
MaxWrapJoints == 2

\* joints the manual editor holds at most
MaxEditorJoints == 1

\* raw segments a detection run delivers at most
MaxRawSegments == 3

(***************************************************************************)
(* Small helpers                                                           *)
(***************************************************************************)
Abs(n) == IF n < 0 THEN -n ELSE n

Max2(a, b) == IF a >= b THEN a ELSE b

\* All sequences over S of length 0..n
SeqsUpTo(S, n) == UNION {[1..k -> S] : k \in 0..n}

(***************************************************************************)
(* imageProcessing.ts: geometry                                            *)
(***************************************************************************)
Pt(px, py) == [x |-> px, y |-> py]

\* calculateDistance, squared: dx*dx + dy*dy (the square root is monotone
\* and is applied by the comparisons, see DistLess)
calculateDistance(p1, p2) ==
    LET dx == p2.x - p1.x
        dy == p2.y - p1.y
    IN  dx * dx + dy * dy

\* sqrt(d2) < t  for a squared distance d2 and a threshold t in pixels
DistLess(d2, t) == t > 0 /\ d2 < t * t

\* Math.atan2(dy, dx) * (180 / Math.PI), in millidegrees, for the direction
\* vectors <<dy, dx>> of the segments of SegmentPool and of their reverses,
\* of the lines between the ClickPoints of the application and of the
\* segments of RawSegmentPool
Atan2Table ==
    [v \in {<<0, 100>>, <<0, -100>>, <<-2, 96>>, <<2, -96>>,
            <<-16, 88>>, <<16, -88>>, <<0, 40>>, <<0, -40>>,
            <<-2, 40>>, <<2, -40>>, <<80, 0>>, <<-80, 0>>,
            <<7, 40>>, <<-7, -40>>, <<14, 90>>, <<-14, -90>>,
            <<80, 60>>, <<-80, -60>>, <<0, 0>>,
            <<0, 50>>, <<0, 2>>, <<-100, 0>>} |->
        CASE v = <<0, 100>>   -> 0
          [] v = <<0, -100>>  -> 180000
          [] v = <<-2, 96>>   -> -1193
          [] v = <<2, -96>>   -> 178807
          [] v = <<-16, 88>>  -> -10305
          [] v = <<16, -88>>  -> 169695
          [] v = <<0, 40>>    -> 0
          [] v = <<0, -40>>   -> 180000
          [] v = <<-2, 40>>   -> -2862
          [] v = <<2, -40>>   -> 177138
          [] v = <<80, 0>>    -> 90000
          [] v = <<-80, 0>>   -> -90000
          [] v = <<7, 40>>    -> 9926
          [] v = <<-7, -40>>  -> -170074
          [] v = <<14, 90>>   -> 8842
          [] v = <<-14, -90>> -> -171158
          [] v = <<80, 60>>   -> 53130
          [] v = <<-80, -60>> -> -126870
          [] v = <<0, 0>>     -> 0
          [] v = <<0, 50>>    -> 0
          [] v = <<0, 2>>     -> 0
          [] v = <<-100, 0>>  -> -90000]

\* getLineAngle: the angle of a segment in [0, 180) degrees (millidegrees)
getLineAngle(start, end) ==
    LET dx == end.x - start.x
        dy == end.y - start.y
        atan == Atan2Table[<<dy, dx>>]
        a1 == IF atan < 0 THEN atan + 180000 ELSE atan
    IN  IF a1 >= 180000 THEN a1 - 180000 ELSE a1

\* detectJoints, lines 158-163: a raw segment with its derived fields
\* (length is the squared length)
LineSegment(start, end) ==
    [start |-> start, end |-> end,
     angle |-> getLineAngle(start, end),
     length |-> calculateDistance(start, end)]

\* pointToLineDistance as written with the distance to the segment (the
\* foot of the perpendicular clamped to the endpoints) instead of the line
pointToLineDistance_clamped(point, lineStart, lineEnd) ==
    LET dx == lineEnd.x - lineStart.x
        dy == lineEnd.y - lineStart.y
        length2 == dx * dx + dy * dy
        dot == (point.x - lineStart.x) * dx + (point.y - lineStart.y) * dy
        cross == dy * point.x - dx * point.y
                   + lineEnd.x * lineStart.y - lineEnd.y * lineStart.x
    IN  IF length2 = 0 \/ dot < 0
          THEN <<calculateDistance(point, lineStart), 1>>
          ELSE IF dot > length2
                 THEN <<calculateDistance(point, lineEnd), 1>>
                 ELSE <<cross * cross, length2>>

\* pointToLineDistance: |cross| / length to the infinite line, as the pair
\* of squares <<cross^2, length^2>>; the distance to lineStart when the
\* line has length 0
pointToLineDistance(point, lineStart, lineEnd) ==
    LET dx == lineEnd.x - lineStart.x
        dy == lineEnd.y - lineStart.y
        length2 == dx * dx + dy * dy
        cross == dy * point.x - dx * point.y
                   + lineEnd.x * lineStart.y - lineEnd.y * lineStart.x
    IN  IF length2 = 0
          THEN <<calculateDistance(point, lineStart), 1>>
          ELSE <<cross * cross, length2>>

\* perpDist < t  for a perpDist given as <<num^2, den^2>>
PerpLess(pd, t) == t > 0 /\ pd[1] < t * t * pd[2]

\* lines 43-50 as written with the in-order pairing only
EndpointMatch_sameOrderOnly(segment, existing, t) ==
    /\ DistLess(calculateDistance(segment.start, existing.start), t)
    /\ DistLess(calculateDistance(segment.end, existing.end), t)

\* lines 43-50: both endpoints match, in order or swapped
EndpointMatch(segment, existing, t) ==
    LET startDist1 == calculateDistance(segment.start, existing.start)
        endDist1   == calculateDistance(segment.end, existing.end)
        startDist2 == calculateDistance(segment.start, existing.end)
        endDist2   == calculateDistance(segment.end, existing.start)
        match1 == DistLess(startDist1, t) /\ DistLess(endDist1, t)
        match2 == DistLess(startDist2, t) /\ DistLess(endDist2, t)
    IN  match1 \/ match2

\* lines 59-83: similar angle, close midpoints, both endpoints of the
\* candidate near the existing segment's line
CollinearContained(segment, existing, t) ==
    LET mid1 == Pt(segment.start.x + segment.end.x,
                   segment.start.y + segment.end.y)
        mid2 == Pt(existing.start.x + existing.end.x,
                   existing.start.y + existing.end.y)
        midDist == calculateDistance(mid1, mid2)  \* 4 * midDist^2
        angleDiff == Abs(segment.angle - existing.angle)
        normalizedAngleDiff ==
            IF angleDiff > 90000 THEN 180000 - angleDiff ELSE angleDiff
        perpDist1 == pointToLineDistance(segment.start, existing.start, existing.end)
        perpDist2 == pointToLineDistance(segment.end, existing.start, existing.end)
    IN  /\ normalizedAngleDiff < 10000
        /\ midDist < Max2(segment.length, existing.length)
        /\ PerpLess(perpDist1, t)
        /\ PerpLess(perpDist2, t)

\* the body of the inner loop as written without the endpoint test
IsDuplicateOf_containmentOnly(segment, existing, t) ==
    CollinearContained(segment, existing, t)

\* the body of the inner loop: the candidate is a duplicate of `existing`
IsDuplicateOf(segment, existing, t) ==
    EndpointMatch(segment, existing, t) \/ CollinearContained(segment, existing, t)

\* the sort as written when it is not stable: a segment is put in front of
\* the segments of its own length
RECURSIVE InsertByLength_unstable(_, _)
InsertByLength_unstable(sorted, s) ==
    IF sorted = <<>> THEN <<s>>
    ELSE IF Head(sorted).length > s.length
           THEN <<Head(sorted)>> \o InsertByLength_unstable(Tail(sorted), s)
           ELSE <<s>> \o sorted

\* [...segments].sort((a, b) => b.length - a.length): stable, descending
RECURSIVE InsertByLength(_, _)
InsertByLength(sorted, s) ==
    IF sorted = <<>> THEN <<s>>
    ELSE IF Head(sorted).length >= s.length
           THEN <<Head(sorted)>> \o InsertByLength(Tail(sorted), s)
           ELSE <<s>> \o sorted

RECURSIVE SortByLengthDesc(_)
SortByLengthDesc(segs) ==
    IF segs = <<>> THEN <<>>
    ELSE InsertByLength(SortByLengthDesc(SubSeq(segs, 1, Len(segs) - 1)),
                        segs[Len(segs)])

\* result.push(segment), as written with the segment reoriented left to right
pushSegment_reoriented(res, segment) ==
    IF segment.start.x > segment.end.x
      THEN Append(res, [segment EXCEPT !.start = segment.end, !.end = segment.start])
      ELSE Append(res, segment)

\* line 87: result.push(segment)
pushSegment(res, segment) == Append(res, segment)

\* the pass as written when a candidate is compared with every segment that
\* precedes it in sorted order, accepted or not
RECURSIVE EarlierLoop(_, _, _, _)
EarlierLoop(sorted, i, res, t) ==
    IF i > Len(sorted) THEN res
    ELSE LET isDuplicate == \E k \in 1..(i - 1) : IsDuplicateOf(sorted[i], sorted[k], t)
         IN  EarlierLoop(sorted, i + 1,
                         IF isDuplicate THEN res ELSE Append(res, sorted[i]), t)

DedupLoop_againstAllEarlier(sorted, res, t) == EarlierLoop(sorted, 1, res, t)

\* the pass as written when a candidate is compared with the last accepted
\* segment only
RECURSIVE DedupLoop_lastAcceptedOnly(_, _, _)
DedupLoop_lastAcceptedOnly(sorted, res, t) ==
    IF sorted = <<>> THEN res
    ELSE LET segment == Head(sorted)
             isDuplicate == Len(res) > 0 /\ IsDuplicateOf(segment, res[Len(res)], t)
         IN  DedupLoop_lastAcceptedOnly(Tail(sorted),
                       IF isDuplicate THEN res ELSE Append(res, segment),
                       t)

\* lines 38-89: the greedy pass over the sorted list
RECURSIVE DedupLoop(_, _, _)
DedupLoop(sorted, res, t) ==
    IF sorted = <<>> THEN res
    ELSE LET segment == Head(sorted)
             isDuplicate == \E k \in 1..Len(res) : IsDuplicateOf(segment, res[k], t)
         IN  DedupLoop(Tail(sorted),
                       IF isDuplicate THEN res ELSE pushSegment(res, segment),
                       t)

\* the pass as written when a candidate is compared with the segment that
\* precedes it in sorted order instead of with the accepted ones
RECURSIVE AdjacentLoop(_, _, _, _)
AdjacentLoop(sorted, i, res, t) ==
    IF i > Len(sorted) THEN res
    ELSE LET isDuplicate == i > 1 /\ IsDuplicateOf(sorted[i], sorted[i - 1], t)
         IN  AdjacentLoop(sorted, i + 1,
                          IF isDuplicate THEN res ELSE Append(res, sorted[i]), t)

removeDuplicateLines_adjacent(segs, t) ==
    AdjacentLoop(SortByLengthDesc(segs), 1, <<>>, t)

\* the pass as written when the sort is ascending (shorter lines first)
RECURSIVE SortByLengthAsc(_)
SortByLengthAsc(segs) ==
    IF segs = <<>> THEN <<>>
    ELSE LET rest == SortByLengthAsc(Tail(segs))
             before == SelectSeq(rest, LAMBDA s : s.length < Head(segs).length)
             after == SelectSeq(rest, LAMBDA s : s.length >= Head(segs).length)
         IN  before \o <<Head(segs)>> \o after

removeDuplicateLines_ascending(segs, t) ==
    DedupLoop(SortByLengthAsc(segs), <<>>, t)

\* line 35 as written without the copy: segments.sort(...) orders the
\* argument array itself
ArgumentAfterDedup_sortedInPlace(segs) == SortByLengthDesc(segs)

\* the caller's array after the call: line 35 sorts the copy [...segments]
\* and lines 38-89 only read the segments
ArgumentAfterDedup(segs) == segs

\* removeDuplicateLines(segments, threshold)
removeDuplicateLines(segs, t) ==
    DedupLoop(SortByLengthDesc(segs), <<>>, t)

(***************************************************************************)
(* Inputs of the deduplicator                                              *)
(***************************************************************************)
\* Raw segments as the detector delivers them (integer pixel endpoints):
\* a trace, a second detection of it, a chained near-duplicate, contained
\* fragments (one with an angle just below 180), its reverse, a tilted
\* fragment at its start, a crossing trace, a parallel one, a shorter
\* trace that leaves the first at a small angle and runs past its end, and
\* two traces of the first one's length, 18 px and 36 px beside it.
SegmentPool ==
    { LineSegment(Pt(0, 0), Pt(100, 0)),
      LineSegment(Pt(2, 1), Pt(98, -1)),
      LineSegment(Pt(2, 15), Pt(90, -1)),
      LineSegment(Pt(30, 2), Pt(70, 2)),
      LineSegment(Pt(100, 0), Pt(0, 0)),
      LineSegment(Pt(30, 1), Pt(70, -1)),
      LineSegment(Pt(0, 0), Pt(40, 7)),
      LineSegment(Pt(50, -40), Pt(50, 40)),
      LineSegment(Pt(0, 50), Pt(100, 50)),
      LineSegment(Pt(50, 5), Pt(140, 19)),
      LineSegment(Pt(0, 18), Pt(100, 18)),
      LineSegment(Pt(0, 36), Pt(100, 36)) }

\* the default matchThreshold (line 33) and the one detectJoints passes
\* (line 174)
Thresholds == {15, 20}

(***************************************************************************)
(* Specification of the deduplicator                                       *)
(***************************************************************************)
\* the parts of the state a specification does not use
IdleDedup ==
    /\ segments = <<>>
    /\ threshold = 0
    /\ result = <<>>
    /\ result2 = <<>>
    /\ swapped = <<>>
    /\ resultSwapped = <<>>

IdleCluster ==
    /\ joints = <<>>
    /\ maxSets = 0
    /\ sets = <<>>
    /\ jointSets = <<>>
    /\ permuted = <<>>
    /\ jointSetsPermuted = <<>>
    /\ jointColorMap = <<>>

IdleNormalize == angle = 0 /\ normalized = <<>>

IdleStats ==
    /\ scale = [pixelsPerMeter |-> 0]
    /\ photoWidth = 0
    /\ photoHeight = 0
    /\ stats = <<>>

IdleApp ==
    /\ currentStep = "capture"
    /\ detectedJoints = <<>>
    /\ editorJoints = <<>>
    /\ isProcessing = FALSE
    /\ showOriginal = TRUE
    /\ detection = "idle"
    /\ useImperial = TRUE
    /\ exported = <<>>

InitDedup ==
    /\ pc = "ready"
    /\ segments \in SeqsUpTo(SegmentPool, MaxSegs)
    /\ threshold \in Thresholds
    /\ result = <<>>
    /\ result2 = <<>>
    /\ swapped = <<>>
    /\ resultSwapped = <<>>
    /\ IdleCluster
    /\ IdleNormalize
    /\ IdleStats
    /\ IdleApp

\* a call removeDuplicateLines(segments, threshold)
RemoveDuplicateLines ==
    /\ pc = "ready"
    /\ result' = removeDuplicateLines(segments, threshold)
    /\ segments' = ArgumentAfterDedup(segments)
    /\ pc' = "done"
    /\ UNCHANGED <<threshold, result2, swapped, resultSwapped>>
    /\ UNCHANGED <<clusterVars, normalizeVars, statsVars, appVars>>

\* a second call, on the first call's output
RemoveDuplicateLinesAgain ==
    /\ pc = "done"
    /\ result2' = removeDuplicateLines(result, threshold)
    /\ result' = ArgumentAfterDedup(result)
    /\ pc' = "rerun"
    /\ UNCHANGED <<segments, threshold, swapped, resultSwapped>>
    /\ UNCHANGED <<clusterVars, normalizeVars, statsVars, appVars>>

\* the list segs with the segment at position i drawn the other way round
SwapEnds(segs, i) ==
    [segs EXCEPT ![i] = LineSegment(segs[i].end, segs[i].start)]

\* a call on the input with one segment's start and end swapped
RemoveDuplicateLinesSwapped ==
    /\ pc = "done"
    /\ \E i \in 1..Len(segments) :
          /\ swapped' = ArgumentAfterDedup(SwapEnds(segments, i))
          /\ resultSwapped' = removeDuplicateLines(SwapEnds(segments, i), threshold)
    /\ pc' = "swapped"
    /\ UNCHANGED <<segments, threshold, result, result2>>
    /\ UNCHANGED <<clusterVars, normalizeVars, statsVars, appVars>>

NextDedup ==
    \/ RemoveDuplicateLines
    \/ RemoveDuplicateLinesAgain
    \/ RemoveDuplicateLinesSwapped

SpecDedup == InitDedup /\ [][NextDedup]_vars

(***************************************************************************)
(* Properties of the deduplicator                                          *)
(***************************************************************************)
\* number of positions of seq holding the value s
CountIn(seq, s) == Cardinality({k \in 1..Len(seq) : seq[k] = s})

InSeq(seq, s) == \E k \in 1..Len(seq) : seq[k] = s

\* C1: deduplication is idempotent: removeDuplicateLines applied to its own
\* output returns the same segments in the same order.
C1_DedupIdempotent ==
    pc = "rerun" => result2 = result

\* C1 witness: a second call has run on an output from which the first call
\* had removed something, and which still holds several segments.
C1_Witness ==
    pc = "rerun" /\ Len(result) >= 2 /\ Len(result) < Len(segments)

\* C2 as stated: of two input segments judged duplicates (either one taken
\* as the candidate), the longer is in the output and the shorter is not.
C2_LongerAlwaysSurvives ==
    pc = "done" =>
        \A i, j \in 1..Len(segments) :
            (/\ segments[i].length > segments[j].length
             /\ \/ IsDuplicateOf(segments[j], segments[i], threshold)
                \/ IsDuplicateOf(segments[i], segments[j], threshold))
            => (InSeq(result, segments[i]) /\ ~InSeq(result, segments[j]))

\* C2 amended: of two input segments of different length where the shorter,
\* as candidate, is judged a duplicate of the longer, the shorter is absent
\* from the output whenever the longer is present, and the longer is absent
\* only when it is itself judged a duplicate of an output segment at least
\* as long as it.
C2_LengthPreference ==
    pc = "done" =>
        \A i, j \in 1..Len(segments) :
            (/\ segments[i].length > segments[j].length
             /\ IsDuplicateOf(segments[j], segments[i], threshold))
            => /\ InSeq(result, segments[i]) => ~InSeq(result, segments[j])
               /\ ~InSeq(result, segments[i]) =>
                     \E k \in 1..Len(result) :
                        /\ result[k].length >= segments[i].length
                        /\ IsDuplicateOf(segments[i], result[k], threshold)

\* C2 witness: a chain: the input holds a longer segment that is itself
\* removed, and a shorter duplicate of it that survives.
C2_Witness ==
    /\ pc = "done"
    /\ \E i, j \in 1..Len(segments) :
          /\ segments[i].length > segments[j].length
          /\ IsDuplicateOf(segments[j], segments[i], threshold)
          /\ ~InSeq(result, segments[i])
          /\ InSeq(result, segments[j])
    /\ \E i, j \in 1..Len(segments) :
          /\ segments[i].length > segments[j].length
          /\ IsDuplicateOf(segments[j], segments[i], threshold)
          /\ InSeq(result, segments[i])

\* C3: the output is a filtered selection of the input: every output
\* segment is an input segment with start, end, angle and length unchanged,
\* and occurs in the output at most as often as in the input.
C3_OutputIsSelection ==
    pc = "done" =>
        \A k \in 1..Len(result) :
            /\ InSeq(segments, result[k])
            /\ CountIn(result, result[k]) <= CountIn(segments, result[k])

\* C3 witness: a call that kept some segments (one of them drawn right to
\* left) and removed others.
C3_Witness ==
    /\ pc = "done"
    /\ Len(result) >= 2
    /\ Len(result) < Len(segments)
    /\ \E k \in 1..Len(result) : result[k].start.x > result[k].end.x

\* C14: for an input of two segments of different length where both
\* endpoints of the shorter lie within the threshold of the endpoints of the
\* longer, in either pairing, the output is the longer segment alone,
\* whatever the input order.
C14_EndpointPairCollapses ==
    (pc = "done" /\ Len(segments) = 2) =>
        \A i, j \in 1..2 :
            LET longer == segments[i]
                shorter == segments[j]
                near(p, q) == DistLess(calculateDistance(p, q), threshold)
            IN  (/\ longer.length > shorter.length
                 /\ \/ near(shorter.start, longer.start) /\ near(shorter.end, longer.end)
                    \/ near(shorter.start, longer.end) /\ near(shorter.end, longer.start))
                => result = <<longer>>

\* C14 witness: (2,1)-(98,-1) followed by (0,0)-(100,0) at threshold 15
\* leaves (0,0)-(100,0) alone.
C14_Witness ==
    /\ pc = "done"
    /\ threshold = 15
    /\ segments = << LineSegment(Pt(2, 1), Pt(98, -1)),
                     LineSegment(Pt(0, 0), Pt(100, 0)) >>
    /\ result = << LineSegment(Pt(0, 0), Pt(100, 0)) >>

\* the subsequence of seq at the positions i..Len(seq) flagged by acc
RECURSIVE Kept(_, _, _)
Kept(seq, acc, i) ==
    IF i > Len(seq) THEN <<>>
    ELSE (IF acc[i] THEN <<seq[i]>> ELSE <<>>) \o Kept(seq, acc, i + 1)

\* C17: greedy acceptance: with the input in descending order of length, a
\* segment is accepted if and only if no test fires between it as candidate
\* and a segment accepted before it, and the output is the accepted segments
\* in that order.
C17_GreedyAcceptance ==
    pc = "done" =>
        LET sorted == SortByLengthDesc(segments)
            n == Len(sorted)
        IN  \E acc \in [1..n -> BOOLEAN] :
                /\ \A i \in 1..n :
                      acc[i] <=> ~ \E k \in 1..(i - 1) :
                                      /\ acc[k]
                                      /\ \/ EndpointMatch(sorted[i], sorted[k], threshold)
                                         \/ CollinearContained(sorted[i], sorted[k], threshold)
                /\ result = Kept(sorted, acc, 1)

\* C17 witness: a segment is accepted although a test fires between it and
\* an earlier segment, because that earlier segment was itself rejected.
C17_Witness ==
    /\ pc = "done"
    /\ Len(segments) = 3
    /\ Len(result) = 2
    /\ \E i, j \in 1..3 :
          /\ segments[i].length > segments[j].length
          /\ ~InSeq(result, segments[i])
          /\ InSeq(result, segments[j])
          /\ IsDuplicateOf(segments[j], segments[i], threshold)

\* C18 as stated: between two distinct output segments no test fires,
\* whichever of the two is the candidate.
C18_NoDuplicatesEitherWay ==
    pc = "done" =>
        \A k, m \in 1..Len(result) :
            k # m => /\ ~EndpointMatch(result[k], result[m], threshold)
                     /\ ~CollinearContained(result[k], result[m], threshold)

\* C18 amended: between two distinct output segments the endpoint test
\* fires in neither direction, and the containment test does not fire with
\* the later (not longer) of the two as candidate against the earlier one.
C18_NoLaterDuplicateOfEarlier ==
    pc = "done" =>
        \A k, m \in 1..Len(result) :
            k < m => /\ result[k].length >= result[m].length
                     /\ ~EndpointMatch(result[m], result[k], threshold)
                     /\ ~EndpointMatch(result[k], result[m], threshold)
                     /\ ~CollinearContained(result[m], result[k], threshold)

\* C18 witness: the output holds a longer segment that, taken as candidate,
\* is contained in a shorter output segment's line.
C18_Witness ==
    /\ pc = "done"
    /\ \E k, m \in 1..Len(result) :
          /\ k < m
          /\ result[k].length > result[m].length
          /\ CollinearContained(result[k], result[m], threshold)
          /\ ~CollinearContained(result[m], result[k], threshold)

\* two segments on the same endpoints, drawn the same or the opposite way
SameLine(a, b) ==
    \/ a = b
    \/ a.start = b.end /\ a.end = b.start /\ a.angle = b.angle /\ a.length = b.length

\* C19: deduplication is direction-agnostic: after the start and end of one
\* input segment are swapped (its angle and length stay the same), the same
\* input segments survive, in the same output order.
C19_DirectionAgnostic ==
    pc = "swapped" =>
        /\ Len(swapped) = Len(segments)
        /\ \A k \in 1..Len(segments) :
              /\ swapped[k].angle = segments[k].angle
              /\ swapped[k].length = segments[k].length
        /\ Len(resultSwapped) = Len(result)
        /\ \A k \in 1..Len(result) : SameLine(resultSwapped[k], result[k])

\* C19 witness: the swapped segment is one whose removal rests on the
\* endpoint test alone, (2,15)-(90,-1) against (2,1)-(98,-1) at threshold 15.
C19_Witness ==
    /\ pc = "swapped"
    /\ threshold = 15
    /\ Len(segments) = 3
    /\ segments[1] = LineSegment(Pt(2, 15), Pt(90, -1))
    /\ segments[2] = LineSegment(Pt(2, 1), Pt(98, -1))
    /\ swapped[1] = LineSegment(Pt(90, -1), Pt(2, 15))
    /\ Len(result) = 2
    /\ ~InSeq(resultSwapped, swapped[1])

\* C20: the containment test fires for a candidate against an accepted
\* segment exactly when (a) their angles in [0, 180) differ by less than 10
\* degrees, the difference taken as min(|a - b|, 180 - |a - b|), (b) their
\* midpoints are closer than half the longer of the two lengths, and (c)
\* each endpoint of the candidate is closer than the threshold to the
\* accepted segment's infinite line (the distance from p to the line
\* through a with direction d is sqrt(|p - a|^2 - ((p - a).d)^2 / |d|^2)).
C20_CollinearContainment ==
    pc = "done" =>
        \A i, j \in 1..Len(segments) :
            LET candidate == segments[i]
                accepted == segments[j]
                t == threshold
                diff == Abs(candidate.angle - accepted.angle)
                angular == IF diff <= 180000 - diff THEN diff ELSE 180000 - diff
                \* four times the squared distance of the midpoints
                mx == (candidate.start.x + candidate.end.x)
                        - (accepted.start.x + accepted.end.x)
                my == (candidate.start.y + candidate.end.y)
                        - (accepted.start.y + accepted.end.y)
                longer2 == IF candidate.length >= accepted.length
                             THEN candidate.length ELSE accepted.length
                dx == accepted.end.x - accepted.start.x
                dy == accepted.end.y - accepted.start.y
                d2 == dx * dx + dy * dy
                nearLine(p) ==
                    LET ax == p.x - accepted.start.x
                        ay == p.y - accepted.start.y
                        dot == ax * dx + ay * dy
                    IN  (ax * ax + ay * ay) * d2 - dot * dot < t * t * d2
            IN  CollinearContained(candidate, accepted, t)
                  <=> /\ angular < 10000
                      /\ mx * mx + my * my < longer2
                      /\ nearLine(candidate.start)
                      /\ nearLine(candidate.end)

\* C20 witness: at threshold 20 (50,5)-(140,19) is removed as contained in
\* (0,0)-(100,0): its far endpoint lies 19 px from that line and 44 px from
\* the segment itself; no endpoint pairing matches.
C20_Witness ==
    /\ pc = "done"
    /\ threshold = 20
    /\ segments = << LineSegment(Pt(50, 5), Pt(140, 19)),
                     LineSegment(Pt(0, 0), Pt(100, 0)) >>
    /\ result = << LineSegment(Pt(0, 0), Pt(100, 0)) >>
    /\ ~EndpointMatch(segments[1], segments[2], threshold)
    /\ CollinearContained(segments[1], segments[2], threshold)

\* C24 as stated: the output is in non-increasing order of length, and of
\* two input segments of equal length that are duplicates of each other,
\* neither being a duplicate of a longer accepted segment, the one that
\* comes first in the input is kept and the other is not.
C24_FirstOfEqualKept ==
    pc = "done" =>
        /\ \A k, m \in 1..Len(result) : k < m => result[k].length >= result[m].length
        /\ \A i, j \in 1..Len(segments) :
              (/\ i < j
               /\ segments[i].length = segments[j].length
               /\ IsDuplicateOf(segments[j], segments[i], threshold)
               /\ IsDuplicateOf(segments[i], segments[j], threshold)
               /\ \A k \in 1..Len(result) :
                     result[k].length > segments[i].length
                        => /\ ~IsDuplicateOf(segments[i], result[k], threshold)
                           /\ ~IsDuplicateOf(segments[j], result[k], threshold))
              => /\ InSeq(result, segments[i])
                 /\ segments[j] # segments[i] => ~InSeq(result, segments[j])

\* position p comes before position i in the stable descending sort
SortedBefore(p, i) ==
    \/ segments[p].length > segments[i].length
    \/ segments[p].length = segments[i].length /\ p < i

\* C24: the output is in non-increasing order of length, and of two input
\* segments of equal length that are duplicates of each other, the one that
\* comes first in the input is kept and the other is not, provided the first
\* is not a duplicate of an accepted segment that the sort puts before it: a
\* longer one, or one of the same length that comes earlier in the input.
C24_StableTieBreak ==
    pc = "done" =>
        /\ \A k, m \in 1..Len(result) : k < m => result[k].length >= result[m].length
        /\ \A i, j \in 1..Len(segments) :
              (/\ i < j
               /\ segments[i].length = segments[j].length
               /\ IsDuplicateOf(segments[j], segments[i], threshold)
               /\ IsDuplicateOf(segments[i], segments[j], threshold)
               /\ \A p \in 1..Len(segments) :
                     (SortedBefore(p, i) /\ InSeq(result, segments[p]))
                        => ~IsDuplicateOf(segments[i], segments[p], threshold))
              => /\ InSeq(result, segments[i])
                 /\ segments[j] # segments[i] => ~InSeq(result, segments[j])

\* C24 witness: a trace given right to left and then left to right: the
\* first of the two is the one returned.
C24_Witness ==
    /\ pc = "done"
    /\ segments = << LineSegment(Pt(100, 0), Pt(0, 0)), LineSegment(Pt(0, 0), Pt(100, 0)) >>
    /\ result = << LineSegment(Pt(100, 0), Pt(0, 0)) >>

(***************************************************************************)
(* Exact values: (n/d)*sqrt(r) with d > 0, gcd(n, d) = 1 and r squarefree, *)
(* and the IEEE specials Infinity, -Infinity and NaN                       *)
(***************************************************************************)
RECURSIVE GCD(_, _)
GCD(a, b) == IF b = 0 THEN a ELSE GCD(b, a % b)

\* the largest s with s*s dividing n (n > 0), searched upward from k
RECURSIVE SquarePart(_, _, _)
SquarePart(n, k, best) ==
    IF k * k > n THEN best
    ELSE SquarePart(n, k + 1, IF n % (k * k) = 0 THEN k ELSE best)

NaN == [k |-> "nan", n |-> 0, d |-> 1, r |-> 1]

Infinity(sign) == [k |-> "inf", n |-> sign, d |-> 1, r |-> 1]

\* (n/d)*sqrt(r) in normal form, for d # 0 and r > 0 squarefree
Num(n, d, r) ==
    IF n = 0 THEN [k |-> "num", n |-> 0, d |-> 1, r |-> 1]
    ELSE LET g == GCD(Abs(n), Abs(d))
             sg == IF d < 0 THEN -1 ELSE 1
         IN  [k |-> "num", n |-> sg * (n \div g), d |-> sg * (d \div g), r |-> r]

Rat(n, d) == Num(n, d, 1)

Zero == Rat(0, 1)

SignOf(v) == IF v.n > 0 THEN 1 ELSE IF v.n < 0 THEN -1 ELSE 0

IsFinite(v) == v.k = "num"

\* v > 0 as JavaScript evaluates it (false for NaN)
GtZero(v) == v.k # "nan" /\ v.n > 0

\* a / b as JavaScript evaluates it; a finite a is rational
DivV(a, b) ==
    IF a.k = "nan" \/ b.k = "nan" THEN NaN
    ELSE IF a.k = "inf"
      THEN IF b.k = "inf" THEN NaN
           ELSE Infinity(IF SignOf(b) < 0 THEN -a.n ELSE a.n)
    ELSE IF b.k = "inf" THEN Zero
    ELSE IF b.n = 0
      THEN IF a.n = 0 THEN NaN ELSE Infinity(SignOf(a))
    ELSE Num(a.n * b.d, a.d * b.n * b.r, b.r)

\* a * b as JavaScript evaluates it, for rational finite operands
MulV(a, b) ==
    IF a.k = "nan" \/ b.k = "nan" THEN NaN
    ELSE IF a.k = "inf" \/ b.k = "inf"
      THEN IF a.n = 0 \/ b.n = 0 THEN NaN
           ELSE Infinity(SignOf(a) * SignOf(b))
    ELSE LET g1 == GCD(Abs(a.n), b.d)
             g2 == GCD(Abs(b.n), a.d)
         IN  IF a.n = 0 \/ b.n = 0 THEN Zero
             ELSE Rat((a.n \div g1) * (b.n \div g2), (a.d \div g2) * (b.d \div g1))

\* Math.sqrt(a) for a rational a: sqrt(n/d) = sqrt(n*d)/d = (s/d)*sqrt(m)
\* where n*d = s*s*m with m squarefree
SqrtV(a) ==
    IF a.k = "nan" THEN NaN
    ELSE IF a.k = "inf" THEN (IF a.n > 0 THEN Infinity(1) ELSE NaN)
    ELSE IF a.n < 0 THEN NaN
    ELSE IF a.n = 0 THEN Zero
    ELSE LET nd == a.n * a.d
             s == SquarePart(nd, 1, 1)
         IN  Num(s, a.d, nd \div (s * s))

(***************************************************************************)
(* ResultsView.tsx: clustering by orientation                              *)
(*                                                                         *)
(* A joint's orientation is an integer number of tenths of a degree (so    *)
(* that 14.6 degrees exists); a joint without the field has no             *)
(* "orientation" in its DOMAIN.  Joint ids are the integers 1, 2, ...      *)
(*  meanOrientation is in whole degrees (Math.round).                      *)
(***************************************************************************)
\* d degrees in the unit of orientations
Deg(d) == d * 10

\* lines 23-27
SET_COLORS ==
    << "#e74c3c", "#3498db", "#2ecc71", "#f39c12", "#9b59b6",
       "#1abc9c", "#e67e22", "#34495e", "#16a085", "#c0392b",
       "#2980b9", "#27ae60" >>

\* a % m as JavaScript evaluates it: the sign of the dividend
JsRem(a, m) == IF a >= 0 THEN a % m ELSE -((-a) % m)

\* normalizeOrientation as written without the fold of [180, 360) onto
\* [0, 180)
normalizeOrientation_fullCircle(a) ==
    LET n0 == JsRem(a, Deg(360))
    IN  IF n0 < 0 THEN n0 + Deg(360) ELSE n0

\* normalizeOrientation as written without the branch for negative remainders
normalizeOrientation_noNegativeFix(a) ==
    LET n0 == JsRem(a, Deg(360))
    IN  IF n0 >= Deg(180) THEN n0 - Deg(180) ELSE n0

\* lines 41-46
normalizeOrientation(a) ==
    LET n0 == JsRem(a, Deg(360))
        n1 == IF n0 < 0 THEN n0 + Deg(360) ELSE n0
    IN  IF n1 >= Deg(180) THEN n1 - Deg(180) ELSE n1

\* j.orientation || 0 as written with 90 as the default
OrientationOrZero_defaultNinety(j) ==
    IF "orientation" \in DOMAIN j THEN j.orientation ELSE Deg(90)

\* line 51: j.orientation || 0
OrientationOrZero(j) ==
    IF "orientation" \in DOMAIN j THEN j.orientation ELSE 0

\* j.lengthMeters || 0
LengthOrZero(j) ==
    IF "lengthMeters" \in DOMAIN j THEN j.lengthMeters ELSE 0

\* the map as written when joints without an orientation are skipped
JointOrientations_dropMissing(js) ==
    LET kept == SelectSeq(js, LAMBDA j : "orientation" \in DOMAIN j)
    IN  [k \in 1..Len(kept) |->
            [joint |-> kept[k], orientation |-> normalizeOrientation(kept[k].orientation)]]

\* lines 49-52: joints.map(j => ({joint, orientation}))
JointOrientations(js) ==
    [k \in 1..Len(js) |->
        [joint |-> js[k], orientation |-> normalizeOrientation(OrientationOrZero(js[k]))]]

\* line 59 as written with bins centred on the multiples of 15 degrees
BinIndex_nearest(orientation) ==
    (((orientation + Deg(15) \div 2) \div Deg(15)) * 15) % 180

\* line 59: Math.floor(orientation / binSize) * binSize, in degrees
BinIndex(orientation) == (orientation \div Deg(15)) * 15

\* lines 58-65: the Map of bins, in insertion order
RECURSIVE BuildBins(_, _)
BuildBins(orients, bins) ==
    IF orients = <<>> THEN bins
    ELSE LET o == Head(orients)
             binIndex == BinIndex(o.orientation)
             at == {k \in 1..Len(bins) : bins[k].binIndex = binIndex}
             bins1 == IF at = {}
                        THEN Append(bins, [binIndex |-> binIndex, joints |-> <<>>,
                                           orientations |-> <<>>])
                        ELSE bins
             pos == CHOOSE k \in 1..Len(bins1) : bins1[k].binIndex = binIndex
         IN  BuildBins(Tail(orients),
                       [bins1 EXCEPT ![pos].joints = Append(@, o.joint),
                                     ![pos].orientations = Append(@, o.orientation)])

RECURSIVE SumSeq(_)
SumSeq(seq) == IF seq = <<>> THEN 0 ELSE Head(seq) + SumSeq(Tail(seq))

\* the lengths of a joint list: joints.map(j => j.lengthMeters || 0)
Lengths(js) == [k \in 1..Len(js) |-> LengthOrZero(js[k])]

\* Math.round as written when the mean is cut to its whole part
RoundDiv_truncating(n, d) == n \div d

\* Math.round(n / d) for d > 0: floor(n/d + 1/2)
RoundDiv(n, d) == (2 * n + d) \div (2 * d)

\* lines 71-86 as written when the mean is taken over the members' own
\* orientation fields instead of the normalized values kept in the bin
JointSetOfBin_rawMean(bin, setId) ==
    LET totalLength == SumSeq(Lengths(bin.joints))
        raw == [m \in 1..Len(bin.joints) |-> OrientationOrZero(bin.joints[m])]
    IN  [id |-> setId,
         meanOrientation |-> RoundDiv(SumSeq(raw), Deg(1) * Len(raw)),
         count |-> Len(bin.joints),
         joints |-> bin.joints,
         totalLength |-> Rat(totalLength, 1),
         meanLength |-> IF Len(bin.joints) > 0
                          THEN DivV(Rat(totalLength, 1), Rat(Len(bin.joints), 1))
                          ELSE Zero,
         color |-> SET_COLORS[((setId - 1) % Len(SET_COLORS)) + 1]]

\* lines 71-86: the JointSet of the setId-th bin
JointSetOfBin(bin, setId) ==
    LET totalLength == SumSeq(Lengths(bin.joints))
    IN  [id |-> setId,
         \* the mean of tenths of degrees, rounded to whole degrees
         meanOrientation |-> RoundDiv(SumSeq(bin.orientations),
                                      Deg(1) * Len(bin.orientations)),
         count |-> Len(bin.joints),
         joints |-> bin.joints,
         totalLength |-> Rat(totalLength, 1),
         meanLength |-> IF Len(bin.joints) > 0
                          THEN DivV(Rat(totalLength, 1), Rat(Len(bin.joints), 1))
                          ELSE Zero,
         color |-> SET_COLORS[((setId - 1) % Len(SET_COLORS)) + 1]]

\* sets.sort((a, b) => b.count - a.count): stable, descending
RECURSIVE InsertByCount(_, _)
InsertByCount(sorted, s) ==
    IF sorted = <<>> THEN <<s>>
    ELSE IF Head(sorted).count >= s.count
           THEN <<Head(sorted)>> \o InsertByCount(Tail(sorted), s)
           ELSE <<s>> \o sorted

RECURSIVE SortByCountDesc(_)
SortByCountDesc(ss) ==
    IF ss = <<>> THEN <<>>
    ELSE InsertByCount(SortByCountDesc(SubSeq(ss, 1, Len(ss) - 1)), ss[Len(ss)])

\* lines 67-89: the sets of all bins, sorted by count
SortedSets(js) ==
    LET bins == BuildBins(JointOrientations(js), <<>>)
    IN  SortByCountDesc([k \in 1..Len(bins) |-> JointSetOfBin(bins[k], k)])

\* line 90: sets.slice(0, maxSets)
Slice(ss, n) == SubSeq(ss, 1, IF n < Len(ss) THEN n ELSE Len(ss))

\* the loop of lines 93-96 left out: ids and colours stay those of the bins
ReassignIdsAndColors_skipped(ss) == ss

\* lines 93-96: ids and colours by rank
ReassignIdsAndColors(ss) ==
    [index \in 1..Len(ss) |->
        [ss[index] EXCEPT !.id = index,
                          !.color = SET_COLORS[((index - 1) % Len(SET_COLORS)) + 1]]]

\* lines 104-112: createJointColorMap: the colour of each member's id; a
\* later set overwrites the entry of an earlier one
createJointColorMap(ss) ==
    LET idsOf(s) == {ss[s].joints[m].id : m \in 1..Len(ss[s].joints)}
        ids == UNION {idsOf(s) : s \in 1..Len(ss)}
        lastSetOf(id) == CHOOSE s \in 1..Len(ss) :
                            /\ id \in idsOf(s)
                            /\ \A u \in 1..Len(ss) : id \in idsOf(u) => u <= s
    IN  [id \in ids |-> ss[lastSetOf(id)].color]

\* the caller's array after the call: lines 49-96 build new arrays and new
\* set objects, the joints are only read and referenced
ArgumentAfterCluster(js) == js

\* clusterJointsByOrientation(joints, maxSets)
clusterJointsByOrientation(js, n) ==
    IF Len(js) = 0 THEN <<>>
    ELSE ReassignIdsAndColors(Slice(SortedSets(js), n))

(***************************************************************************)
(* Inputs of the clusterer                                                 *)
(***************************************************************************)
\* orientation (tenths of a degree) and lengthMeters of the joints drawn:
\* 2, 8, 14.6, 16, 93, 97, 179 and 181 degrees, and a joint without
\* orientation
JointPool ==
    { [orientation |-> 20, lengthMeters |-> 3],
      [orientation |-> 80, lengthMeters |-> 5],
      [orientation |-> 146, lengthMeters |-> 4],
      [orientation |-> 160, lengthMeters |-> 3],
      [orientation |-> 930, lengthMeters |-> 3],
      [orientation |-> 970, lengthMeters |-> 5],
      [orientation |-> 1790, lengthMeters |-> 5],
      [orientation |-> 1810, lengthMeters |-> 4],
      [lengthMeters |-> 4] }

\* joints at 2, 8, 14, 16, 93 and 97 degrees, for the longer lists
ExamplePool ==
    { [orientation |-> 20, lengthMeters |-> 3],
      [orientation |-> 80, lengthMeters |-> 5],
      [orientation |-> 140, lengthMeters |-> 4],
      [orientation |-> 160, lengthMeters |-> 3],
      [orientation |-> 930, lengthMeters |-> 3],
      [orientation |-> 970, lengthMeters |-> 5] }

\* a joint in each of the twelve bins: 7, 22, ..., 172 degrees
FullCircle == [k \in 1..12 |-> [orientation |-> Deg(15 * (k - 1) + 7), lengthMeters |-> 2]]

\* orientations outside [0, 180): 180, 194.5, 359.9, -1 and 725 degrees
WrapPool ==
    { [orientation |-> 1800, lengthMeters |-> 3],
      [orientation |-> 1945, lengthMeters |-> 4],
      [orientation |-> 3599, lengthMeters |-> 5],
      [orientation |-> -10, lengthMeters |-> 3],
      [orientation |-> 7250, lengthMeters |-> 4] }

\* the joint with id k and the fields of a
JointWith(k, a) ==
    IF "orientation" \in DOMAIN a
      THEN [id |-> k, orientation |-> a.orientation, lengthMeters |-> a.lengthMeters]
      ELSE [id |-> k, lengthMeters |-> a.lengthMeters]

\* joint lists of up to n joints with ids 1..n
JointLists(pool, n) ==
    UNION {{[k \in 1..m |-> JointWith(k, f[k])] : f \in [1..m -> pool]} : m \in 0..n}

\* the joints of FullCircle followed by up to n joints of pool, ids 1, 2, ...
FullCircleLists(pool, n) ==
    UNION {{[k \in 1..(12 + m) |->
                JointWith(k, IF k <= 12 THEN FullCircle[k] ELSE f[k - 12])] :
            f \in [1..m -> pool]} : m \in 0..n}

\* the default of maxSets (line 37, and the call of line 155)
DefaultMaxSets == 12

MaxSetsChoices == {1, 2, DefaultMaxSets}

(***************************************************************************)
(* Specification of the clusterer                                          *)
(***************************************************************************)
InitCluster ==
    /\ pc = "ready"
    /\ joints \in JointLists(JointPool, MaxJoints)
                   \cup JointLists(ExamplePool, MaxExampleJoints)
                   \cup FullCircleLists(WrapPool, MaxWrapJoints)
    /\ maxSets \in MaxSetsChoices
    /\ sets = <<>>
    /\ jointSets = <<>>
    /\ permuted = <<>>
    /\ jointSetsPermuted = <<>>
    /\ jointColorMap = <<>>
    /\ IdleDedup
    /\ IdleNormalize
    /\ IdleStats
    /\ IdleApp

\* a call clusterJointsByOrientation(joints, maxSets); `sets` records the
\* local variable of that name as it is when slice() is reached
ClusterJointsByOrientation ==
    /\ pc = "ready"
    /\ sets' = IF Len(joints) = 0 THEN <<>> ELSE SortedSets(joints)
    /\ jointSets' = clusterJointsByOrientation(joints, maxSets)
    /\ joints' = ArgumentAfterCluster(joints)
    /\ pc' = "done"
    /\ UNCHANGED <<maxSets, permuted, jointSetsPermuted, jointColorMap>>
    /\ UNCHANGED <<dedupVars, normalizeVars, statsVars, appVars>>

\* js with the joints at positions i and i + 1 exchanged; exchanges of
\* neighbours generate every permutation
SwapJoints(js, i) ==
    [k \in 1..Len(js) |-> IF k = i THEN js[i + 1] ELSE IF k = i + 1 THEN js[i] ELSE js[k]]

\* a second call, clusterJointsByOrientation(permuted, maxSets), on the same
\* joints in another order
ClusterPermuted ==
    /\ pc = "done"
    /\ \E i \in 1..(Len(joints) - 1) :
          /\ permuted' = ArgumentAfterCluster(SwapJoints(joints, i))
          /\ jointSetsPermuted' = clusterJointsByOrientation(SwapJoints(joints, i), maxSets)
    /\ pc' = "permuted"
    /\ UNCHANGED <<joints, maxSets, sets, jointSets, jointColorMap>>
    /\ UNCHANGED <<dedupVars, normalizeVars, statsVars, appVars>>

\* line 156: createJointColorMap(clusters) on the returned list
CreateJointColorMap ==
    /\ pc = "done"
    /\ jointColorMap' = createJointColorMap(jointSets)
    /\ pc' = "mapped"
    /\ UNCHANGED <<joints, maxSets, sets, jointSets, permuted, jointSetsPermuted>>
    /\ UNCHANGED <<dedupVars, normalizeVars, statsVars, appVars>>

NextCluster == ClusterJointsByOrientation \/ ClusterPermuted \/ CreateJointColorMap

SpecCluster == InitCluster /\ [][NextCluster]_vars

(***************************************************************************)
(* Specification of normalizeOrientation                                   *)
(***************************************************************************)
\* whole and half degrees in -MaxAngle .. MaxAngle
InitNormalize ==
    /\ pc = "ready"
    /\ angle \in {Deg(a) + h : a \in (-MaxAngle)..MaxAngle, h \in {0, 5}}
    /\ normalized = <<>>
    /\ IdleDedup
    /\ IdleCluster
    /\ IdleStats
    /\ IdleApp

\* normalizeOrientation applied to angle, angle + 180 and angle - 360
NormalizeOrientation ==
    /\ pc = "ready"
    /\ normalized' = << normalizeOrientation(angle),
                        normalizeOrientation(angle + Deg(180)),
                        normalizeOrientation(angle - Deg(360)) >>
    /\ pc' = "done"
    /\ UNCHANGED <<angle, dedupVars, clusterVars, statsVars, appVars>>

NextNormalize == NormalizeOrientation

SpecNormalize == InitNormalize /\ [][NextNormalize]_vars

(***************************************************************************)
(* Properties of the clusterer                                             *)
(***************************************************************************)
\* the positions <<s, m>> of the member joints of a list of sets
MemberPositions(ss) ==
    UNION {{<<s, m>> : m \in 1..Len(ss[s].joints)} : s \in 1..Len(ss)}

\* the 15-degree bin of a joint
BinOfJoint(j) == BinIndex(normalizeOrientation(OrientationOrZero(j)))

\* C4: cluster coverage before truncation: every input joint belongs to
\* exactly one set, every member is an input joint, and the counts sum to
\* joints.length.
C4_ClusterCoverage ==
    pc = "done" =>
        /\ \A k \in 1..Len(joints) :
              Cardinality({p \in MemberPositions(sets) :
                              sets[p[1]].joints[p[2]] = joints[k]}) = 1
        /\ \A p \in MemberPositions(sets) : InSeq(joints, sets[p[1]].joints[p[2]])
        /\ SumSeq([s \in 1..Len(sets) |-> sets[s].count]) = Len(joints)

\* C4 witness: three joints fall into two bins (one of them without
\* orientation), and the truncation then drops a bin.
C4_Witness ==
    /\ pc = "done"
    /\ Len(joints) = 3
    /\ Len(sets) = 2
    /\ Len(jointSets) < Len(sets)
    /\ \E k \in 1..Len(joints) : "orientation" \notin DOMAIN joints[k]

\* C7: the returned list is in non-increasing order of count, holds at most
\* maxSets sets, namely those of the bins with the highest counts, has ids
\* 1..k in output order and the colour SET_COLORS[(r - 1) mod 12] at rank r.
C7_SortedTruncatedRanked ==
    pc = "done" =>
        LET bins == {BinOfJoint(joints[k]) : k \in 1..Len(joints)}
            sizeOf(b) == Cardinality({k \in 1..Len(joints) : BinOfJoint(joints[k]) = b})
            returned == {BinOfJoint(jointSets[i].joints[1]) : i \in 1..Len(jointSets)}
        IN  /\ Len(jointSets) <= maxSets
            /\ Len(jointSets) = IF Cardinality(bins) < maxSets
                                  THEN Cardinality(bins) ELSE maxSets
            /\ \A i \in 1..Len(jointSets) :
                  /\ jointSets[i].id = i
                  /\ jointSets[i].color = SET_COLORS[((i - 1) % 12) + 1]
                  /\ jointSets[i].count = sizeOf(BinOfJoint(jointSets[i].joints[1]))
                  /\ \A j \in 1..Len(jointSets) :
                        i < j => jointSets[i].count >= jointSets[j].count
                  /\ \A b \in bins \ returned : sizeOf(b) <= jointSets[i].count
            /\ Cardinality(returned) = Len(jointSets)

\* C7 witness: the sort moved a later bin to the front and the truncation
\* dropped a bin.
C7_Witness ==
    /\ pc = "done"
    /\ Len(jointSets) = 1
    /\ Len(sets) = 2
    /\ jointSets[1].count = 2
    /\ jointSets[1].joints[1].id = 2

\* C13: a joint without orientation is kept: it is a member of the set of
\* bin [0, 15), whose count, total length and mean orientation run over all
\* joints of that bin with the missing orientation taken as 0; with the
\* default maxSets that set is part of the returned list.
C13_MissingOrientationIsZero ==
    pc = "done" =>
        \A k \in 1..Len(joints) :
            "orientation" \notin DOMAIN joints[k] =>
                LET n == Len(joints)
                    binZero(j) == \/ "orientation" \notin DOMAIN j
                                  \/ /\ "orientation" \in DOMAIN j
                                     /\ BinIndex(normalizeOrientation(j.orientation)) = 0
                    inBin(i) == binZero(joints[i])
                    count == Cardinality({i \in 1..n : inBin(i)})
                    lengthSum == SumSeq([i \in 1..n |->
                        IF inBin(i) THEN joints[i].lengthMeters ELSE 0])
                    orientationSum == SumSeq([i \in 1..n |->
                        IF inBin(i) /\ "orientation" \in DOMAIN joints[i]
                          THEN normalizeOrientation(joints[i].orientation) ELSE 0])
                IN  \E s \in 1..Len(sets) :
                        /\ InSeq(sets[s].joints, joints[k])
                        /\ \A m \in 1..Len(sets[s].joints) : binZero(sets[s].joints[m])
                        /\ sets[s].count = count
                        /\ sets[s].totalLength = Rat(lengthSum, 1)
                        /\ sets[s].meanOrientation = RoundDiv(orientationSum, Deg(1) * count)
                        /\ maxSets = DefaultMaxSets =>
                              \E i \in 1..Len(jointSets) :
                                  /\ jointSets[i].joints = sets[s].joints
                                  /\ jointSets[i].count = count
                                  /\ jointSets[i].totalLength = Rat(lengthSum, 1)
                                  /\ jointSets[i].meanOrientation = sets[s].meanOrientation

\* C13 witness: a joint at 8 degrees (5 m) and a joint without orientation
\* (4 m) form one set of count 2, mean orientation 4 and total length 9.
C13_Witness ==
    /\ pc = "done"
    /\ maxSets = DefaultMaxSets
    /\ Len(joints) = 3
    /\ joints[1] = [id |-> 1, orientation |-> 80, lengthMeters |-> 5]
    /\ joints[2] = [id |-> 2, lengthMeters |-> 4]
    /\ joints[3] = [id |-> 3, orientation |-> 930, lengthMeters |-> 3]
    /\ jointSets[1].joints = <<joints[1], joints[2]>>
    /\ jointSets[1].count = 2
    /\ jointSets[1].meanOrientation = 4
    /\ jointSets[1].totalLength = Rat(9, 1)

\* floor(angle / 15) of a joint's normalized orientation
FloorBin(j) ==
    LET o == IF "orientation" \in DOMAIN j THEN j.orientation ELSE 0
        n0 == JsRem(o, 3600)
        n1 == IF n0 < 0 THEN n0 + 3600 ELSE n0
        n2 == IF n1 >= 1800 THEN n1 - 1800 ELSE n1
    IN  n2 \div 150

\* the k-th input joint is a member of the s-th returned set
MemberOf(s, k) == InSeq(jointSets[s].joints, joints[k])

\* C21 as stated: two joints are members of the same returned set if and
\* only if their normalized orientations have the same floor(angle / 15),
\* and no two returned sets cover the same bin.
C21_SameSetIffSameBin ==
    pc = "done" =>
        /\ \A i, j \in 1..Len(joints) :
              i # j =>
                  ((\E s \in 1..Len(jointSets) : MemberOf(s, i) /\ MemberOf(s, j))
                      <=> (FloorBin(joints[i]) = FloorBin(joints[j])))
        /\ \A s, t \in 1..Len(jointSets) :
              s # t => FloorBin(jointSets[s].joints[1]) # FloorBin(jointSets[t].joints[1])

\* C21: two joints that are members of one returned set have the same
\* floor(angle / 15); two joints with the same floor(angle / 15) are members
\* of the same returned set unless their bin was cut off by maxSets, which
\* cuts whole bins only and nothing when maxSets is at least the number of
\* non-empty bins; the bins are the fixed intervals [15k, 15k + 15), and no
\* two returned sets cover the same bin.
C21_SameSetIffSameBinReturned ==
    pc = "done" =>
        /\ \A s \in 1..Len(jointSets) : \A i, j \in 1..Len(joints) :
              (MemberOf(s, i) /\ MemberOf(s, j))
                  => FloorBin(joints[i]) = FloorBin(joints[j])
        /\ \A s \in 1..Len(jointSets) : \A i, j \in 1..Len(joints) :
              (MemberOf(s, i) /\ FloorBin(joints[i]) = FloorBin(joints[j]))
                  => MemberOf(s, j)
        /\ Cardinality({FloorBin(joints[k]) : k \in 1..Len(joints)}) <= maxSets
              => \A k \in 1..Len(joints) : \E s \in 1..Len(jointSets) : MemberOf(s, k)
        /\ \A s, t \in 1..Len(jointSets) :
              s # t => FloorBin(jointSets[s].joints[1]) # FloorBin(jointSets[t].joints[1])

\* C21 witness: joints at 14, 16, 2 and 14 degrees with the default maxSets:
\* the joint at 16 degrees is alone in its set, the three others share one.
C21_Witness ==
    /\ pc = "done"
    /\ maxSets = DefaultMaxSets
    /\ Len(joints) = 4
    /\ joints[1] = [id |-> 1, orientation |-> 140, lengthMeters |-> 4]
    /\ joints[2] = [id |-> 2, orientation |-> 160, lengthMeters |-> 3]
    /\ joints[3] = [id |-> 3, orientation |-> 20, lengthMeters |-> 3]
    /\ joints[4] = [id |-> 4, orientation |-> 140, lengthMeters |-> 4]
    /\ Len(jointSets) = 2
    /\ jointSets[1].joints = <<joints[1], joints[3], joints[4]>>
    /\ jointSets[2].joints = <<joints[2]>>

\* the normalized orientation of a joint, in tenths of a degree
NormalizedOf(j) == normalizeOrientation(OrientationOrZero(j))

\* C22: for every returned joint set, count is the number of its members
\* and at least 1, meanOrientation is the arithmetic mean of the members'
\* normalized orientations rounded to the nearest integer (a half rounds
\* up), totalLength is the sum of the members' lengthMeters and meanLength
\* is totalLength / count.
C22_SetAggregates ==
    pc = "done" =>
        \A s \in 1..Len(jointSets) :
            LET members == jointSets[s].joints
                count == Len(members)
                orientationSum == SumSeq([m \in 1..count |-> NormalizedOf(members[m])])
                lengthSum == SumSeq([m \in 1..count |-> LengthOrZero(members[m])])
                \* 10 * count * (meanOrientation - mean), in tenths of a degree
                off == jointSets[s].meanOrientation * 10 * count - orientationSum
            IN  /\ jointSets[s].count = count
                /\ count >= 1
                /\ \A m \in 1..count : InSeq(joints, members[m])
                /\ -5 * count < off
                /\ off <= 5 * count
                /\ jointSets[s].totalLength = Rat(lengthSum, 1)
                /\ MulV(jointSets[s].meanLength, Rat(count, 1)) = Rat(lengthSum, 1)

\* C22 witness: orientations 2, 8, 93 and 97 degrees give two sets with
\* mean 5, count 2 and mean 95, count 2.
C22_Witness ==
    /\ pc = "done"
    /\ maxSets = DefaultMaxSets
    /\ joints = << [id |-> 1, orientation |-> 20, lengthMeters |-> 3],
                   [id |-> 2, orientation |-> 80, lengthMeters |-> 5],
                   [id |-> 3, orientation |-> 930, lengthMeters |-> 3],
                   [id |-> 4, orientation |-> 970, lengthMeters |-> 5] >>
    /\ Len(jointSets) = 2
    /\ jointSets[1].meanOrientation = 5
    /\ jointSets[1].count = 2
    /\ jointSets[2].meanOrientation = 95
    /\ jointSets[2].count = 2
    /\ jointSets[1].totalLength = Rat(8, 1)
    /\ jointSets[1].meanLength = Rat(4, 1)

\* the members of a set, as a set
MemberSet(set) == {set.joints[m] : m \in 1..Len(set.joints)}

\* C23: clusterJointsByOrientation returns for a permutation of the joint
\* list the same sets: as many, and at each rank the same id, colour,
\* members (as a set), count, mean orientation, total and mean length.
C23_OrderIrrelevant ==
    pc = "permuted" =>
        /\ Len(jointSetsPermuted) = Len(jointSets)
        /\ \A s \in 1..Len(jointSets) :
              /\ jointSetsPermuted[s].id = jointSets[s].id
              /\ jointSetsPermuted[s].color = jointSets[s].color
              /\ MemberSet(jointSetsPermuted[s]) = MemberSet(jointSets[s])
              /\ jointSetsPermuted[s].count = jointSets[s].count
              /\ jointSetsPermuted[s].meanOrientation = jointSets[s].meanOrientation
              /\ jointSetsPermuted[s].totalLength = jointSets[s].totalLength
              /\ jointSetsPermuted[s].meanLength = jointSets[s].meanLength

\* C25: the clusterer forms at most 12 bins, with keys among 0, 15, ...,
\* 165; with the default maxSets = 12 nothing is cut off: every joint
\* belongs to exactly one returned set, the returned counts sum to
\* joints.length, and every joint id has an entry in the joint colour map,
\* the colour of its set.
C25_NoTruncationAtDefault ==
    pc = "mapped" =>
        /\ Len(sets) <= 12
        /\ \A s \in 1..Len(sets) : \A m \in 1..Len(sets[s].joints) :
              FloorBin(sets[s].joints[m]) \in 0..11
        /\ maxSets = DefaultMaxSets =>
              /\ Len(jointSets) = Len(sets)
              /\ \A k \in 1..Len(joints) :
                    Cardinality({p \in MemberPositions(jointSets) :
                                    jointSets[p[1]].joints[p[2]] = joints[k]}) = 1
              /\ SumSeq([s \in 1..Len(jointSets) |-> jointSets[s].count]) = Len(joints)
              /\ \A k \in 1..Len(joints) :
                    /\ joints[k].id \in DOMAIN jointColorMap
                    /\ \E s \in 1..Len(jointSets) :
                          /\ InSeq(jointSets[s].joints, joints[k])
                          /\ jointColorMap[joints[k].id] = jointSets[s].color

\* C25 witness: fourteen joints, among them orientations of -1 and 359.9
\* degrees, fill all twelve bins; twelve sets are returned and the colour
\* map has fourteen entries.
C25_Witness ==
    /\ pc = "mapped"
    /\ maxSets = DefaultMaxSets
    /\ Len(joints) = 14
    /\ joints[13].orientation = -10
    /\ joints[14].orientation = 3599
    /\ Len(sets) = 12
    /\ Len(jointSets) = 12
    /\ jointSets[1].count = 3
    /\ Cardinality(DOMAIN jointColorMap) = 14

\* C28: the meanOrientation of every returned set lies in the closed
\* interval from the lower bound 15k of its bin to 15k + 15, and so between
\* 0 and 180.
C28_MeanWithinBin ==
    pc = "done" =>
        \A s \in 1..Len(jointSets) :
            LET k == FloorBin(jointSets[s].joints[1])
            IN  /\ \A m \in 1..Len(jointSets[s].joints) :
                      FloorBin(jointSets[s].joints[m]) = k
                /\ 15 * k <= jointSets[s].meanOrientation
                /\ jointSets[s].meanOrientation <= 15 * k + 15
                /\ 0 <= jointSets[s].meanOrientation
                /\ jointSets[s].meanOrientation <= 180

\* C28 witness: a joint at 14.6 degrees alone in bin [0, 15) gives a mean
\* of 15, the upper bound of its bin; a joint at 179 degrees gives 179.
C28_Witness ==
    /\ pc = "done"
    /\ maxSets = DefaultMaxSets
    /\ Len(joints) = 2
    /\ joints[1] = [id |-> 1, orientation |-> 146, lengthMeters |-> 4]
    /\ joints[2] = [id |-> 2, orientation |-> 1790, lengthMeters |-> 5]
    /\ Len(jointSets) = 2
    /\ jointSets[1].meanOrientation = 15
    /\ jointSets[2].meanOrientation = 179

AreaAnalyzed(sc, w, h) ==
    LET widthMeters == DivV(Rat(w, 1), Rat(sc.pixelsPerMeter, 1))
        heightMeters == DivV(Rat(h, 1), Rat(sc.pixelsPerMeter, 1))
    IN  MulV(widthMeters, heightMeters)

\* line 36: joints.reduce((sum, joint) => sum + (joint.lengthMeters || 0), 0)
TotalLength(js) == Rat(SumSeq(Lengths(js)), 1)

\* line 39 as written without the guard on joints.length
MeanLength_unguarded(totalLength, n) == DivV(totalLength, Rat(n, 1))

\* line 39
MeanLength(totalLength, n) ==
    IF n > 0 THEN DivV(totalLength, Rat(n, 1)) ELSE Zero

\* line 41: .sort((a, b) => a - b), ascending
RECURSIVE SortAsc(_)
SortAsc(seq) ==
    IF seq = <<>> THEN <<>>
    ELSE LET rest == SortAsc(Tail(seq))
             before == SelectSeq(rest, LAMBDA v : v < Head(seq))
             after == SelectSeq(rest, LAMBDA v : v >= Head(seq))
         IN  before \o <<Head(seq)>> \o after

SortedLengths(js) == SortAsc(Lengths(js))

\* lines 42-44 as written with the lower median, index floor((n - 1) / 2)
MedianLength_lower(sortedLengths) ==
    IF Len(sortedLengths) > 0
      THEN Rat(sortedLengths[((Len(sortedLengths) - 1) \div 2) + 1], 1)
      ELSE Zero

\* lines 42-44: sortedLengths[Math.floor(sortedLengths.length / 2)]
MedianLength(sortedLengths) ==
    IF Len(sortedLengths) > 0
      THEN Rat(sortedLengths[(Len(sortedLengths) \div 2) + 1], 1)
      ELSE Zero

\* line 46: Math.min(...sortedLengths), 0 for no joints
MinLength(sortedLengths) ==
    IF Len(sortedLengths) > 0
      THEN Rat(CHOOSE v \in {sortedLengths[k] : k \in 1..Len(sortedLengths)} :
                  \A k \in 1..Len(sortedLengths) : v <= sortedLengths[k], 1)
      ELSE Zero

\* line 47: Math.max(...sortedLengths), 0 for no joints
MaxLength(sortedLengths) ==
    IF Len(sortedLengths) > 0
      THEN Rat(CHOOSE v \in {sortedLengths[k] : k \in 1..Len(sortedLengths)} :
                  \A k \in 1..Len(sortedLengths) : v >= sortedLengths[k], 1)
      ELSE Zero

\* line 50 as written without the guard on areaAnalyzed
P21_unguarded(totalLength, areaAnalyzed) == DivV(totalLength, areaAnalyzed)

\* line 50: areaAnalyzed > 0 ? totalLength / areaAnalyzed : 0
P21(totalLength, areaAnalyzed) ==
    IF GtZero(areaAnalyzed) THEN DivV(totalLength, areaAnalyzed) ELSE Zero

\* lines 53-54 as written without Math.sqrt: joints.length / areaAnalyzed
Frequency_noSqrt(n, areaAnalyzed) ==
    IF GtZero(areaAnalyzed) THEN DivV(Rat(n, 1), areaAnalyzed) ELSE Zero

\* lines 53-54: joints.length / Math.sqrt(areaAnalyzed), 0 when that is not > 0
Frequency(n, areaAnalyzed) ==
    LET scanLineLength == SqrtV(areaAnalyzed)
    IN  IF GtZero(scanLineLength) THEN DivV(Rat(n, 1), scanLineLength) ELSE Zero

\* the caller's array after the call: line 41 sorts the array that
\* joints.map() returned, lines 36-54 only read the joints
ArgumentAfterStats(js) == js

\* calculateFractureStats(joints, scale, photoWidth, photoHeight)
calculateFractureStats(js, sc, w, h) ==
    LET areaAnalyzed == AreaAnalyzed(sc, w, h)
        totalLength == TotalLength(js)
        sortedLengths == SortedLengths(js)
    IN  [totalLength |-> totalLength,
         meanLength |-> MeanLength(totalLength, Len(js)),
         medianLength |-> MedianLength(sortedLengths),
         minLength |-> MinLength(sortedLengths),
         maxLength |-> MaxLength(sortedLengths),
         areaAnalyzed |-> areaAnalyzed,
         p21 |-> P21(totalLength, areaAnalyzed),
         frequency |-> Frequency(Len(js), areaAnalyzed),
         jointCount |-> Len(js)]

(***************************************************************************)
(* Inputs of the calculator                                                *)
(***************************************************************************)
\* lengthMeters of the joints drawn (a zero-length joint among them)
StatsJointPool ==
    { [lengthMeters |-> 0], [lengthMeters |-> 3],
      [lengthMeters |-> 4], [lengthMeters |-> 5] }

\* scales: none yet (0), a negative one, and two calibrated ones
PixelsPerMeterChoices == {-100, 0, 50, 100}

PhotoWidthChoices == {0, 1000}

PhotoHeightChoices == {0, 800}

(***************************************************************************)
(* Specification of the calculator                                         *)
(***************************************************************************)
InitStats ==
    /\ pc = "ready"
    /\ joints \in JointLists(StatsJointPool, MaxJoints)
    /\ scale \in {[pixelsPerMeter |-> p] : p \in PixelsPerMeterChoices}
    /\ photoWidth \in PhotoWidthChoices
    /\ photoHeight \in PhotoHeightChoices
    /\ stats = <<>>
    /\ maxSets = 0
    /\ sets = <<>>
    /\ jointSets = <<>>
    /\ permuted = <<>>
    /\ jointSetsPermuted = <<>>
    /\ jointColorMap = <<>>
    /\ IdleDedup
    /\ IdleNormalize
    /\ IdleApp

\* a call calculateFractureStats(joints, scale, photoWidth, photoHeight)
CalculateFractureStats ==
    /\ pc = "ready"
    /\ stats' = calculateFractureStats(joints, scale, photoWidth, photoHeight)
    /\ joints' = ArgumentAfterStats(joints)
    /\ pc' = "done"
    /\ UNCHANGED <<scale, photoWidth, photoHeight, maxSets, sets, jointSets>>
    /\ UNCHANGED <<permuted, jointSetsPermuted, jointColorMap>>
    /\ UNCHANGED <<dedupVars, normalizeVars, appVars>>

NextStats == CalculateFractureStats

SpecStats == InitStats /\ [][NextStats]_vars

(***************************************************************************)
(* Properties of the calculator                                            *)
(***************************************************************************)
\* v * v for an exact finite value
SquareV(v) == Rat(v.n * v.n * v.r, v.d * v.d)

\* a photographed area that is a positive real number
PositiveArea == IsFinite(stats.areaAnalyzed) /\ stats.areaAnalyzed.n > 0

\* C6 as stated: for an empty joint list every numeric field is 0.
C6_AllFieldsZero ==
    (pc = "done" /\ joints = <<>>) =>
        /\ stats.jointCount = 0
        /\ \A f \in {"totalLength", "meanLength", "medianLength", "minLength",
                     "maxLength", "areaAnalyzed", "p21", "frequency"} :
              stats[f] = Zero

\* C6 amended: for an empty joint list, any photo dimensions and any scale,
\* jointCount is 0 and totalLength, meanLength, medianLength, minLength,
\* maxLength, p21 and frequency are 0 (not NaN); areaAnalyzed is not zeroed,
\* it is (photoWidth / pixelsPerMeter) * (photoHeight / pixelsPerMeter)
\* whatever the joint list is.
C6_ZeroCaseExceptArea ==
    (pc = "done" /\ joints = <<>>) =>
        /\ stats.jointCount = 0
        /\ \A f \in {"totalLength", "meanLength", "medianLength", "minLength",
                     "maxLength", "p21", "frequency"} :
              stats[f] = Zero
        /\ stats.areaAnalyzed =
              MulV(DivV(Rat(photoWidth, 1), Rat(scale.pixelsPerMeter, 1)),
                   DivV(Rat(photoHeight, 1), Rat(scale.pixelsPerMeter, 1)))

\* C6 witness: no joints on a 1000 x 800 photo at 100 px/m: the area is 80.
C6_Witness ==
    /\ pc = "done"
    /\ joints = <<>>
    /\ scale.pixelsPerMeter = 100
    /\ stats.areaAnalyzed = Rat(80, 1)

\* C8: for n > 0 joints medianLength is the element at index floor(n / 2)
\* of the ascending lengths: a length of the list with at most floor(n / 2)
\* lengths below it and at least floor(n / 2) + 1 lengths not above it.
C8_UpperMedian ==
    (pc = "done" /\ Len(joints) > 0) =>
        LET n == Len(joints)
            m == stats.medianLength
            below == {k \in 1..n : joints[k].lengthMeters * m.d < m.n}
            notAbove == {k \in 1..n : joints[k].lengthMeters * m.d <= m.n}
        IN  /\ IsFinite(m) /\ m.d = 1 /\ m.r = 1
            /\ \E k \in 1..n : joints[k].lengthMeters = m.n
            /\ Cardinality(below) <= n \div 2
            /\ Cardinality(notAbove) >= (n \div 2) + 1

\* C8 witness: the lengths 3 and 5 give the median 5.
C8_Witness ==
    /\ pc = "done"
    /\ Len(joints) = 2
    /\ joints[1].lengthMeters = 3
    /\ joints[2].lengthMeters = 5
    /\ stats.medianLength = Rat(5, 1)

\* C9: for a non-empty joint list and a positive area: jointCount = n,
\* totalLength = the sum of lengthMeters, meanLength = totalLength / n,
\* minLength and maxLength are the extrema, areaAnalyzed =
\* (photoWidth / ppm) * (photoHeight / ppm), p21 = totalLength / areaAnalyzed
\* and frequency = n / sqrt(areaAnalyzed).
C9_StatsFormulas ==
    (pc = "done" /\ Len(joints) > 0 /\ PositiveArea) =>
        LET n == Len(joints)
            lens == {joints[k].lengthMeters : k \in 1..n}
            ppm == scale.pixelsPerMeter
        IN  /\ stats.jointCount = n
            /\ stats.totalLength = Rat(SumSeq([k \in 1..n |-> joints[k].lengthMeters]), 1)
            /\ MulV(stats.meanLength, Rat(n, 1)) = stats.totalLength
            /\ \E v \in lens : stats.minLength = Rat(v, 1) /\ \A u \in lens : v <= u
            /\ \E v \in lens : stats.maxLength = Rat(v, 1) /\ \A u \in lens : v >= u
            /\ MulV(stats.areaAnalyzed, Rat(ppm * ppm, 1)) = Rat(photoWidth * photoHeight, 1)
            /\ MulV(stats.p21, stats.areaAnalyzed) = stats.totalLength
            /\ IsFinite(stats.frequency) /\ stats.frequency.n > 0
            /\ MulV(SquareV(stats.frequency), stats.areaAnalyzed) = Rat(n * n, 1)

\* C9 witness: joints of 3 m and 5 m on a 1000 x 800 photo at 100 px/m:
\* area 80, total 8, mean 4, p21 1/10, frequency 2/sqrt(80) = sqrt(5)/10.
C9_Witness ==
    /\ pc = "done"
    /\ Len(joints) = 2
    /\ scale.pixelsPerMeter = 100
    /\ stats.areaAnalyzed = Rat(80, 1)
    /\ stats.totalLength = Rat(8, 1)
    /\ stats.meanLength = Rat(4, 1)
    /\ stats.minLength = Rat(3, 1)
    /\ stats.maxLength = Rat(5, 1)
    /\ stats.p21 = Rat(1, 10)
    /\ stats.frequency = Num(1, 10, 5)

\* C10: whenever areaAnalyzed is 0, p21 = 0 and frequency = 0 for any joint
\* list (not NaN, not Infinity).
C10_ZeroAreaGuards ==
    (pc = "done" /\ stats.areaAnalyzed = Zero) =>
        /\ stats.p21 = Zero
        /\ stats.frequency = Zero

\* C10 witness: joints of positive total length on a photo of width 0.
C10_Witness ==
    /\ pc = "done"
    /\ photoWidth = 0
    /\ photoHeight > 0
    /\ Len(joints) >= 2
    /\ stats.totalLength.n > 0
    /\ stats.areaAnalyzed = Zero

\* C11 as stated: for pixelsPerMeter <= 0 the area-derived results
\* areaAnalyzed, p21 and frequency are all returned as 0.
C11_DegenerateScaleZeros ==
    (pc = "done" /\ scale.pixelsPerMeter <= 0) =>
        /\ stats.areaAnalyzed = Zero
        /\ stats.p21 = Zero
        /\ stats.frequency = Zero

(***************************************************************************)
(* The three core functions together                                       *)
(***************************************************************************)
InitCore == InitDedup \/ InitCluster \/ InitStats

NextCore == NextDedup \/ NextCluster \/ NextStats

SpecCore == InitCore /\ [][NextCore]_vars

Null == [null |-> TRUE]

\* canvas points of the clicks and of the detected line ends, 100 px apart
ClickPoints == {Pt(0, 0), Pt(60, 80)}

\* pixelsPerMeter of a calibration: 100 px marked as 10 m or as 5 m
ScaleChoices == {10, 20}

\* width and height of the photos taken
PhotoSizes == {<<200, 100>>, <<400, 200>>}

\* the raw Hough segments of a detection run
DetectPool ==
    { LineSegment(Pt(0, 0), Pt(60, 80)),
      LineSegment(Pt(60, 80), Pt(0, 0)) }

\* calculateDistance as a whole number of pixels
PixelLength(p1, p2) == SqrtV(Rat(calculateDistance(p1, p2), 1)).n

\* lengthPixels / scale.pixelsPerMeter, a whole number of metres
MetersOf(lengthPixels, sc) == lengthPixels \div sc.pixelsPerMeter

\* calculateOrientation: (atan2 in degrees + 360) % 360, in tenths of a
\* degree
calculateOrientation(p1, p2) ==
    LET atan == Atan2Table[<<p2.y - p1.y, p2.x - p1.x>>]
    IN  JsRem(atan + 360000, 360000) \div 100

\* lines 177-192 as written without the step (orientation + 360) % 360
JointOfSegment_signedOrientation(segment, i, sc) ==
    LET lengthPixels == PixelLength(segment.start, segment.end)
    IN  [id |-> i - 1,
         start |-> segment.start,
         end |-> segment.end,
         lengthPixels |-> lengthPixels,
         lengthMeters |-> MetersOf(lengthPixels, sc),
         orientation |-> Atan2Table[<<segment.end.y - segment.start.y,
                                      segment.end.x - segment.start.x>>] \div 100]

\* detectJoints, lines 177-192: the joint of the i-th deduplicated segment
JointOfSegment(segment, i, sc) ==
    LET lengthPixels == PixelLength(segment.start, segment.end)
    IN  [id |-> i - 1,
         start |-> segment.start,
         end |-> segment.end,
         lengthPixels |-> lengthPixels,
         lengthMeters |-> MetersOf(lengthPixels, sc),
         orientation |-> calculateOrientation(segment.start, segment.end)]

\* filteredJoints.sort((a, b) => b.lengthMeters - a.lengthMeters)
RECURSIVE SortByLengthMetersDesc(_)
SortByLengthMetersDesc(js) ==
    IF js = <<>> THEN <<>>
    ELSE LET rest == SortByLengthMetersDesc(SubSeq(js, 1, Len(js) - 1))
             last == js[Len(js)]
             before == SelectSeq(rest, LAMBDA j : j.lengthMeters >= last.lengthMeters)
             after == SelectSeq(rest, LAMBDA j : j.lengthMeters < last.lengthMeters)
         IN  before \o <<last>> \o after

\* detectJoints from the raw segments on: deduplication with threshold 20,
\* conversion, the filter lengthMeters >= 0.1 and the sort
detectJoints(rawSegments, sc) ==
    LET dedupedSegments == removeDuplicateLines(rawSegments, 20)
        converted == [i \in 1..Len(dedupedSegments) |->
                         JointOfSegment(dedupedSegments[i], i, sc)]
        filteredJoints == SelectSeq(converted, LAMBDA j : j.lengthMeters * 10 >= 1)
    IN  SortByLengthMetersDesc(filteredJoints)

\* JointDetection, line 22 as written when the state starts from the
\* project's joints
InitialDetectedJoints_fromProject(projectJoints) == projectJoints

\* JointDetection, line 22: useState<Joint[]>([])
InitialDetectedJoints(projectJoints) == <<>>

\* ManualEditor.createJoint; the id stands for joint_<time>_<random>
createJoint(points, sc, id) ==
    LET lengthPixels == PixelLength(points[1], points[2])
    IN  [id |-> id,
         start |-> points[1],
         end |-> points[2],
         lengthPixels |-> lengthPixels,
         lengthMeters |-> MetersOf(lengthPixels, sc),
         orientation |-> calculateOrientation(points[1], points[2])]

\* an id no joint of js has (ids of manual joints start at 100)
FreshId(js) ==
    CHOOSE id \in 100..(100 + Len(js)) : \A k \in 1..Len(js) : js[k].id # id

\* ManualEditor.handleCanvasMouseMove while dragging: the joint with the
\* dragged endpoint moved to point and its derived fields recomputed
DragJoint(joint, which, point, sc) ==
    LET moved == IF which = "start" THEN [joint EXCEPT !.start = point]
                                    ELSE [joint EXCEPT !.end = point]
        lengthPixels == PixelLength(moved.start, moved.end)
    IN  [moved EXCEPT !.lengthPixels = lengthPixels,
                      !.lengthMeters = MetersOf(lengthPixels, sc),
                      !.orientation = calculateOrientation(moved.start, moved.end)]

\* joints.filter(j => j.id !== jointId)
WithoutJoint(js, jointId) == SelectSeq(js, LAMBDA j : j.id # jointId)

\* the conversion factors of the export module (lines 8-9); ResultsView
\* declares the same factors in its lines 30-31
METERS_TO_FEET == Rat(328084, 100000)

SQ_METERS_TO_SQ_FEET == Rat(107639, 10000)

\* exportToCSV, lines 163-165
convertLength(m, imperial) == IF imperial THEN MulV(m, METERS_TO_FEET) ELSE m

convertArea(m2, imperial) == IF imperial THEN MulV(m2, SQ_METERS_TO_SQ_FEET) ELSE m2

convertDensity(d, imperial) ==
    IF imperial THEN MulV(DivV(d, METERS_TO_FEET), SQ_METERS_TO_SQ_FEET) ELSE d

\* exportToCSV, lines 174-186: the values of the statistics section, before
\* toFixed
CsvStatistics(st, imperial) ==
    [units |-> IF imperial THEN "Imperial" ELSE "Metric",
     jointCount |-> st.jointCount,
     totalLength |-> convertLength(st.totalLength, imperial),
     meanLength |-> convertLength(st.meanLength, imperial),
     medianLength |-> convertLength(st.medianLength, imperial),
     minLength |-> convertLength(st.minLength, imperial),
     maxLength |-> convertLength(st.maxLength, imperial),
     areaAnalyzed |-> convertArea(st.areaAnalyzed, imperial),
     p21 |-> convertDensity(st.p21, imperial)]

\* the state of ResultsView as one record
ResultsState(st, ss, imperial) ==
    [stats |-> st, jointSets |-> ss, useImperial |-> imperial]

\* setUseImperial as written when the stored lengths are converted with it
setUseImperial_storingFeet(view, checked) ==
    [view EXCEPT !.useImperial = checked,
                 !.stats.totalLength = convertLength(@, checked)]

\* line 374: setUseImperial(e.target.checked) replaces that state alone
setUseImperial(view, checked) == [view EXCEPT !.useImperial = checked]

\* lines 145-159: the effect that runs when ResultsView is mounted
StatsEffect(js, sc, w, h) ==
    IF sc # Null THEN calculateFractureStats(js, sc, w, h) ELSE Null

ClustersEffect(js, sc) ==
    IF sc # Null THEN clusterJointsByOrientation(js, DefaultMaxSets) ELSE <<>>

(***************************************************************************)
(* Specification of the application                                        *)
(***************************************************************************)
InitApp ==
    /\ pc = "app"
    /\ currentStep = "capture"
    /\ photoWidth = 0
    /\ photoHeight = 0
    /\ scale = Null
    /\ joints = <<>>
    /\ detectedJoints = <<>>
    /\ editorJoints = <<>>
    /\ isProcessing = FALSE
    /\ showOriginal = TRUE
    /\ detection = "idle"
    /\ stats = Null
    /\ jointSets = <<>>
    /\ useImperial = TRUE
    /\ exported = Null
    /\ maxSets = DefaultMaxSets
    /\ sets = <<>>
    /\ permuted = <<>>
    /\ jointSetsPermuted = <<>>
    /\ jointColorMap = <<>>
    /\ IdleDedup
    /\ IdleNormalize

\* the variables no step of the application writes
appFrame ==
    <<pc, maxSets, sets, permuted, jointSetsPermuted, jointColorMap, dedupVars,
      normalizeVars>>

\* JointDetection, lines 21-23: the state of a newly mounted component; an
\* unmounted one is held in the same state, and the promise of a call it
\* made no longer reaches any state
DetectionMounted ==
    /\ isProcessing' = FALSE
    /\ showOriginal' = TRUE
    /\ detection' = "idle"

\* App.handlePhotoCaptured
HandlePhotoCaptured ==
    /\ currentStep = "capture"
    /\ \E size \in PhotoSizes :
          /\ photoWidth' = size[1]
          /\ photoHeight' = size[2]
    /\ currentStep' = "scale"
    /\ UNCHANGED <<scale, joints, detectedJoints, editorJoints, stats, jointSets,
                   useImperial, exported, appFrame>>
    /\ UNCHANGED detectionVars

\* ScaleCalibration: onBack
ScaleBack ==
    /\ currentStep = "scale"
    /\ currentStep' = "capture"
    /\ UNCHANGED <<photoWidth, photoHeight, scale, joints, detectedJoints,
                   editorJoints, stats, jointSets, useImperial, exported, appFrame>>
    /\ UNCHANGED detectionVars

\* ScaleCalibration.handleConfirm and App.handleScaleSet; JointDetection is
\* mounted
HandleScaleSet ==
    /\ currentStep = "scale"
    /\ \E ppm \in ScaleChoices : scale' = [pixelsPerMeter |-> ppm]
    /\ currentStep' = "detect"
    /\ detectedJoints' = InitialDetectedJoints(joints)
    /\ DetectionMounted
    /\ UNCHANGED <<photoWidth, photoHeight, joints, editorJoints, stats, jointSets,
                   useImperial, exported, appFrame>>

\* handleDetect as written without the finally block: isProcessing is
\* cleared after a successful detection only
DetectReject_withoutFinally ==
    /\ currentStep = "detect"
    /\ detection = "pending"
    /\ detection' = "rejected"
    /\ UNCHANGED <<isProcessing, showOriginal>>
    /\ UNCHANGED <<currentStep, photoWidth, photoHeight, scale, joints, detectedJoints,
                   editorJoints, stats, jointSets, useImperial, exported, appFrame>>

\* JointDetection.handleDetect up to the await: the button is disabled
\* while isProcessing
HandleDetect ==
    /\ currentStep = "detect"
    /\ scale # Null
    /\ ~isProcessing
    /\ isProcessing' = TRUE
    /\ detection' = "pending"
    /\ UNCHANGED <<currentStep, photoWidth, photoHeight, scale, joints, detectedJoints,
                   editorJoints, showOriginal, stats, jointSets, useImperial, exported,
                   appFrame>>

\* handleDetect after the await, detectJoints resolved: lines 127-129 and
\* the finally block
DetectResolve ==
    /\ currentStep = "detect"
    /\ detection = "pending"
    /\ \E rawSegments \in SeqsUpTo(DetectPool, MaxRawSegments) :
          detectedJoints' = detectJoints(rawSegments, scale)
    /\ showOriginal' = FALSE
    /\ isProcessing' = FALSE
    /\ detection' = "resolved"
    /\ UNCHANGED <<currentStep, photoWidth, photoHeight, scale, joints, editorJoints,
                   stats, jointSets, useImperial, exported, appFrame>>

\* handleDetect after the await, detectJoints rejected (image load failure,
\* no canvas context, an exception in the processing): the catch and the
\* finally block
DetectReject ==
    /\ currentStep = "detect"
    /\ detection = "pending"
    /\ isProcessing' = FALSE
    /\ detection' = "rejected"
    /\ UNCHANGED <<currentStep, photoWidth, photoHeight, scale, joints, detectedJoints,
                   editorJoints, showOriginal, stats, jointSets, useImperial, exported,
                   appFrame>>

\* JointDetection: the show-original switch, disabled without joints
ToggleShowOriginal ==
    /\ currentStep = "detect"
    /\ Len(detectedJoints) > 0
    /\ showOriginal' = ~showOriginal
    /\ UNCHANGED <<currentStep, photoWidth, photoHeight, scale, joints, detectedJoints,
                   editorJoints, isProcessing, detection, stats, jointSets, useImperial,
                   exported, appFrame>>

\* JointDetection.handleCanvasClick in selection mode (not while the
\* original is shown), and handleClearAll
DetectionRemove ==
    /\ currentStep = "detect"
    /\ scale # Null
    /\ \/ /\ ~showOriginal
          /\ \E k \in 1..Len(detectedJoints) :
                detectedJoints' = WithoutJoint(detectedJoints, detectedJoints[k].id)
          /\ UNCHANGED showOriginal
       \/ /\ Len(detectedJoints) > 0
          /\ detectedJoints' = <<>>
          /\ showOriginal' = TRUE
    /\ UNCHANGED <<currentStep, photoWidth, photoHeight, scale, joints, editorJoints,
                   isProcessing, detection, stats, jointSets, useImperial, exported,
                   appFrame>>

\* JointDetection.handleContinue and App.handleJointsDetected; ManualEditor
\* is mounted with initialJoints = projectData.joints
HandleJointsDetected ==
    /\ currentStep = "detect"
    /\ scale # Null
    /\ joints' = detectedJoints
    /\ currentStep' = "edit"
    /\ editorJoints' = detectedJoints
    /\ detectedJoints' = <<>>
    /\ DetectionMounted
    /\ UNCHANGED <<photoWidth, photoHeight, scale, stats, jointSets, useImperial,
                   exported, appFrame>>

\* JointDetection: onBack
DetectBack ==
    /\ currentStep = "detect"
    /\ currentStep' = "scale"
    /\ detectedJoints' = <<>>
    /\ DetectionMounted
    /\ UNCHANGED <<photoWidth, photoHeight, scale, joints, editorJoints, stats,
                   jointSets, useImperial, exported, appFrame>>

\* ManualEditor.handleCanvasMouseDown in add mode, second click
EditorAdd ==
    /\ currentStep = "edit"
    /\ scale # Null
    /\ Len(editorJoints) < MaxEditorJoints
    /\ \E p, q \in ClickPoints :
          editorJoints' = Append(editorJoints,
                                 createJoint(<<p, q>>, scale, FreshId(editorJoints)))
    /\ UNCHANGED <<currentStep, photoWidth, photoHeight, scale, joints, detectedJoints,
                   stats, jointSets, useImperial, exported, appFrame>>
    /\ UNCHANGED detectionVars

\* ManualEditor.handleCanvasMouseMove while an endpoint is dragged
EditorDrag ==
    /\ currentStep = "edit"
    /\ scale # Null
    /\ \E k \in 1..Len(editorJoints), which \in {"start", "end"}, point \in ClickPoints :
          editorJoints' =
              [i \in 1..Len(editorJoints) |->
                  IF editorJoints[i].id = editorJoints[k].id
                    THEN DragJoint(editorJoints[i], which, point, scale)
                    ELSE editorJoints[i]]
    /\ UNCHANGED <<currentStep, photoWidth, photoHeight, scale, joints, detectedJoints,
                   stats, jointSets, useImperial, exported, appFrame>>
    /\ UNCHANGED detectionVars

\* ManualEditor: delete mode click, handleDeleteSelected, handleClearAll
EditorDelete ==
    /\ currentStep = "edit"
    /\ scale # Null
    /\ \/ \E k \in 1..Len(editorJoints) :
             editorJoints' = WithoutJoint(editorJoints, editorJoints[k].id)
       \/ Len(editorJoints) > 0 /\ editorJoints' = <<>>
    /\ UNCHANGED <<currentStep, photoWidth, photoHeight, scale, joints, detectedJoints,
                   stats, jointSets, useImperial, exported, appFrame>>
    /\ UNCHANGED detectionVars

\* ManualEditor.handleComplete and App.handleJointsEdited; ResultsView is
\* mounted and its effect of lines 145-159 runs
HandleJointsEdited ==
    /\ currentStep = "edit"
    /\ scale # Null
    /\ joints' = editorJoints
    /\ currentStep' = "results"
    /\ editorJoints' = <<>>
    /\ stats' = StatsEffect(editorJoints, scale, photoWidth, photoHeight)
    /\ jointSets' = ClustersEffect(editorJoints, scale)
    /\ useImperial' = TRUE
    /\ UNCHANGED <<photoWidth, photoHeight, scale, detectedJoints, exported, appFrame>>
    /\ UNCHANGED detectionVars

\* ManualEditor: onBack; JointDetection is mounted
EditBack ==
    /\ currentStep = "edit"
    /\ currentStep' = "detect"
    /\ editorJoints' = <<>>
    /\ detectedJoints' = InitialDetectedJoints(joints)
    /\ DetectionMounted
    /\ UNCHANGED <<photoWidth, photoHeight, scale, joints, stats, jointSets,
                   useImperial, exported, appFrame>>

\* ResultsView: the units switch, line 374
ToggleUnits ==
    /\ currentStep = "results"
    /\ \E checked \in BOOLEAN :
          LET view == setUseImperial(ResultsState(stats, jointSets, useImperial), checked)
          IN  /\ checked # useImperial
              /\ stats' = view.stats
              /\ jointSets' = view.jointSets
              /\ useImperial' = view.useImperial
    /\ UNCHANGED <<currentStep, photoWidth, photoHeight, scale, joints, detectedJoints,
                   editorJoints, exported, appFrame>>
    /\ UNCHANGED detectionVars

\* ResultsView.handleExportCSV and exportToCSV
ExportToCSV ==
    /\ currentStep = "results"
    /\ stats # Null
    /\ exported' = CsvStatistics(stats, useImperial)
    /\ UNCHANGED <<currentStep, photoWidth, photoHeight, scale, joints, detectedJoints,
                   editorJoints, stats, jointSets, useImperial, appFrame>>
    /\ UNCHANGED detectionVars

\* ResultsView: onBack; ManualEditor is mounted with the project's joints
ResultsBack ==
    /\ currentStep = "results"
    /\ currentStep' = "edit"
    /\ editorJoints' = joints
    /\ stats' = Null
    /\ jointSets' = <<>>
    /\ useImperial' = TRUE
    /\ exported' = Null
    /\ UNCHANGED <<photoWidth, photoHeight, scale, joints, detectedJoints, appFrame>>
    /\ UNCHANGED detectionVars

\* App.handleStartNew as written when the scale of the last project is kept
HandleStartNew_keepingScale ==
    /\ currentStep = "results"
    /\ currentStep' = "capture"
    /\ photoWidth' = 0
    /\ photoHeight' = 0
    /\ joints' = <<>>
    /\ stats' = Null
    /\ jointSets' = <<>>
    /\ useImperial' = TRUE
    /\ exported' = Null
    /\ UNCHANGED <<scale, detectedJoints, editorJoints, appFrame>>
    /\ UNCHANGED detectionVars

\* App.handleStartNew
HandleStartNew ==
    /\ currentStep = "results"
    /\ currentStep' = "capture"
    /\ photoWidth' = 0
    /\ photoHeight' = 0
    /\ scale' = Null
    /\ joints' = <<>>
    /\ stats' = Null
    /\ jointSets' = <<>>
    /\ useImperial' = TRUE
    /\ exported' = Null
    /\ UNCHANGED <<detectedJoints, editorJoints, appFrame>>
    /\ UNCHANGED detectionVars

NextApp ==
    \/ HandlePhotoCaptured
    \/ ScaleBack
    \/ HandleScaleSet
    \/ HandleDetect
    \/ DetectResolve
    \/ DetectReject
    \/ ToggleShowOriginal
    \/ DetectionRemove
    \/ HandleJointsDetected
    \/ DetectBack
    \/ EditorAdd
    \/ EditorDrag
    \/ EditorDelete
    \/ HandleJointsEdited
    \/ EditBack
    \/ ToggleUnits
    \/ ExportToCSV
    \/ ResultsBack
    \/ HandleStartNew

SpecApp == InitApp /\ [][NextApp]_vars

(***************************************************************************)
(* Properties of the application                                           *)
(***************************************************************************)
\* lengthMeters = lengthPixels / pixelsPerMeter for every joint of js
ScaledBy(js, sc) ==
    \A k \in 1..Len(js) : js[k].lengthMeters * sc.pixelsPerMeter = js[k].lengthPixels

\* C16: at the edit and at the results step every joint of the project
\* (and of the editor's working list) has lengthMeters = lengthPixels /
\* pixelsPerMeter for the project's current scale.
C16_LengthsFollowScale ==
    currentStep \in {"edit", "results"} =>
        /\ scale # Null
        /\ ScaledBy(joints, scale)
        /\ ScaledBy(editorJoints, scale)

\* C16 witness: the results step after a calibration of 20 px per metre,
\* with a manually added joint of 100 px that measures 5 m
C16_Witness ==
    /\ currentStep = "results"
    /\ scale = [pixelsPerMeter |-> 20]
    /\ photoWidth = 400
    /\ Len(joints) = 1
    /\ joints[1].id = 100
    /\ joints[1].lengthPixels = 100
    /\ joints[1].lengthMeters = 5

\* C12: a change of the units switch at the results step leaves the stored
\* FractureStats, the JointSet list and the joints unchanged; at the results
\* step the stored statistics and sets are the metric ones computed from the
\* project, whatever the switch says, and an export in metric units writes
\* those values: the conversion exists in the exported output only.
C12_StoredStatsStayMetric ==
    [][ /\ (currentStep = "results" /\ currentStep' = "results"
               /\ useImperial' # useImperial)
           => (stats' = stats /\ jointSets' = jointSets /\ joints' = joints)
        /\ currentStep' = "results"
           => /\ stats' = calculateFractureStats(joints', scale', photoWidth',
                                                 photoHeight')
              /\ jointSets' = clusterJointsByOrientation(joints', DefaultMaxSets)
              /\ (exported' # Null /\ exported'.units = "Metric")
                 => exported'.totalLength = stats'.totalLength
      ]_vars

\* C12 witness: the results step with one joint, exported in imperial units
\* and then switched to metric
C12_Witness ==
    /\ currentStep = "results"
    /\ Len(joints) = 1
    /\ joints[1].lengthMeters = 10
    /\ exported # Null
    /\ exported.units = "Imperial"
    /\ useImperial = FALSE
    /\ stats.totalLength = Rat(10, 1)

\* C26: whenever the current step is detect, edit or results the project's
\* scale is not null, and start-new (the step from results to capture)
\* leaves photo size 0 x 0, scale null and no joints.
C26_ScaleSetPastCalibration ==
    [][ /\ currentStep' \in {"detect", "edit", "results"} => scale' # Null
        /\ (currentStep = "results" /\ currentStep' = "capture")
              => /\ photoWidth' = 0
                 /\ photoHeight' = 0
                 /\ scale' = Null
                 /\ joints' = <<>>
      ]_vars

\* C26 witness: back at the detect step from the results of a project with
\* a manually added joint, the scale still set.
C26_Witness ==
    /\ currentStep = "detect"
    /\ scale = [pixelsPerMeter |-> 10]
    /\ Len(joints) = 1
    /\ joints[1].id = 100
    /\ detectedJoints = <<>>

\* C27: with imperial units the exported P21 density is the metric p21
\* converted as feet per square foot, p21 * 3.28084 / 10.7639, a factor
\* below 1.
C27_ImperialDensity ==
    (currentStep = "results" /\ exported # Null /\ exported.units = "Imperial") =>
        LET factor == MulV(METERS_TO_FEET, DivV(Rat(1, 1), SQ_METERS_TO_SQ_FEET))
        IN  /\ factor.n < factor.d
            /\ exported.p21 = MulV(stats.p21, factor)

\* C29: isProcessing is true exactly while the detectJoints call of the
\* mounted JointDetection is pending; a rejection leaves the detected joints
\* and showOriginal as they were, and a success replaces the detected joints
\* by the result of detectJoints for the current scale.
C29_ProcessingFlag ==
    [][ /\ isProcessing' <=> (detection' = "pending")
        /\ (detection = "pending" /\ detection' = "rejected")
              => /\ detectedJoints' = detectedJoints
                 /\ showOriginal' = showOriginal
        /\ (detection = "pending" /\ detection' = "resolved")
              => \E rawSegments \in SeqsUpTo(DetectPool, MaxRawSegments) :
                    detectedJoints' = detectJoints(rawSegments, scale)
      ]_vars

\* C29 witness: a detection that failed after an earlier one had succeeded:
\* the joint of the earlier one is still there, the detected view still
\* shown, and isProcessing is false again.
C29_Witness ==
    /\ currentStep = "detect"
    /\ detection = "rejected"
    /\ ~isProcessing
    /\ ~showOriginal
    /\ Len(detectedJoints) = 1

(***************************************************************************)
(* Specification of detectJoints from the raw segments on                  *)
(*                                                                         *)
(* Every segment of RawSegmentPool is a whole number of metres long at     *)
(* both scales, or shorter than 0.1 m at both.                             *)
(***************************************************************************)
\* raw Hough segments: a trace of 100 px, a second detection of it given
\* right to left, a trace of 50 px, a fragment of 2 px and a trace of
\* 100 px that runs upwards
RawSegmentPool ==
    { LineSegment(Pt(0, 0), Pt(100, 0)),
      LineSegment(Pt(100, 10), Pt(0, 10)),
      LineSegment(Pt(0, 100), Pt(50, 100)),
      LineSegment(Pt(10, 50), Pt(12, 50)),
      LineSegment(Pt(150, 100), Pt(150, 0)) }

\* pixelsPerMeter of the calibration
DetectScales == {25, 50}

InitDetect ==
    /\ pc = "ready"
    /\ segments \in SeqsUpTo(RawSegmentPool, MaxRawSegments)
    /\ scale \in {[pixelsPerMeter |-> p] : p \in DetectScales}
    /\ detectedJoints = <<>>
    /\ threshold = 0
    /\ result = <<>>
    /\ result2 = <<>>
    /\ swapped = <<>>
    /\ resultSwapped = <<>>
    /\ photoWidth = 0
    /\ photoHeight = 0
    /\ stats = <<>>
    /\ currentStep = "detect"
    /\ editorJoints = <<>>
    /\ isProcessing = FALSE
    /\ showOriginal = TRUE
    /\ detection = "idle"
    /\ useImperial = TRUE
    /\ exported = <<>>
    /\ IdleCluster
    /\ IdleNormalize

\* detectJoints, lines 173-198, on the raw segments of one run
DetectJoints ==
    /\ pc = "ready"
    /\ detectedJoints' = detectJoints(segments, scale)
    /\ pc' = "done"
    /\ UNCHANGED <<segments, threshold, result, result2, swapped, resultSwapped>>
    /\ UNCHANGED <<currentStep, editorJoints, detectionVars, useImperial, exported>>
    /\ UNCHANGED <<clusterVars, normalizeVars, statsVars>>

NextDetect == DetectJoints

SpecDetect == InitDetect /\ [][NextDetect]_vars

=============================================================================
